---- MODULE Spec2Model ----
(***************************************************************************)
(* One run() of an FfmpegCommand session (src/src/processor.ts): the       *)
(* preparation waterfall, the spawn of the engine, the asynchronous        *)
(* completion sources (process exit / error, stdout and stderr close,      *)
(* input and output stream events, the timeout timer), the completion      *)
(* callback with the flvmeta post-processing, and the emitEnd latch.       *)
(* Every action is one callback of the event loop, run to completion.      *)
(***************************************************************************)
EXTENDS Integers, Sequences, FiniteSets, TLC

\* ------------------------------------------------------------------ bounds
MaxOutputs == 2     \* outputs added to the session
MaxChunks  == 1     \* data chunks the engine writes on each of stdout/stderr
MaxCapCalls == 5    \* configuration calls before _checkCapabilities
MaxEngineCalls == 2 \* engine invocations made by capability queries
MaxSessions == 2    \* sessions: the first one and its clones
MaxSessCalls == 4   \* method calls made on the sessions
MaxArgCalls == 4    \* configuration calls before _getArguments
MaxSizeCalls == 4   \* size, aspect and autopad calls on the output
MaxRingOps == 4     \* append, callback and close calls on the line ring
MaxProgressLines == 2 \* stderr lines handed to extractProgress
MaxCodecLines == 4   \* stderr lines of one run
MaxFilters == 2      \* filters in the array makeFilterStrings is given
MaxAliasCalls == 3   \* method calls made through the method table
MaxKillCalls == 1    \* kill() calls made on the session
MaxListeners == 3    \* listeners added to the session

VARIABLES
  outputs,            \* self._outputs: sequence of [kind, flvmeta]
  inputIsStream,      \* an input whose source is not a string exists
  timeoutSet,         \* self.options.timeout is set
  ffmpegPath,         \* what _getFfmpegPath yields ("" = not found)
  flvtoolPath,        \* what _getFlvtoolPath yields ("" = not found)
  capsCached,         \* formats and encoders maps are in the capability cache
  pc,                 \* position of the run
  ended,              \* the latch of emitEnd
  events,             \* events emitted on the session, in order
  uncaught,           \* exceptions that escaped a callback
  endCalls,           \* calls of run's completion callback: [err, rings]
  ffmpegProc,         \* self.ffmpegProc is present
  procState,          \* the engine process: none / alive / exited / errored
  exitStatus,         \* [code, signal] of the observed exit
  processExited,      \* _spawnFfmpeg: processExited
  exitError,          \* _spawnFfmpeg: exitError
  stdoutClosed,       \* _spawnFfmpeg: stdoutClosed
  stderrClosed,       \* _spawnFfmpeg: stderrClosed
  stdoutStreamClosed, \* the process's stdout has emitted 'close'
  stdoutRing,         \* captured stdout: [text, closed]
  stderrRing,         \* captured stderr: [text, closed]
  processTimer,       \* self.processTimer: unset / armed / fired / cleared
  inputErrored,       \* the input stream has emitted 'error'
  outErrored,         \* the output stream has emitted 'error'
  outState,           \* output stream: open / closeScheduled / closed
  kills,              \* signals sent with ffmpegProc.kill
  lateKill,           \* a kill was sent after the process had gone
  flvProc,            \* post-processing process per output:
                      \* none / running / ok / failed / errored
  flvCompleted,       \* async.each: iterations completed without error
  flvDone,            \* async.each: final callback already called
  \* the session as _checkCapabilities reads it
  capInputs,          \* self._inputs: the option list of each input
  capOutputs,         \* self._outputs: [target, options, audio, video]
  capCalls,           \* configuration calls made so far
  capResult,          \* what _checkCapabilities handed to its callback
  \* the process-wide caches
  cache,              \* capabilities' cache object: key -> value, or absent
  whichCache,         \* utils' whichCache: name -> path, or absent
  env,                \* the environment: variables, PATH, ffmpeg's directory
  pending,            \* engine processes of capability queries still running
  engineCalls,        \* _spawnFfmpeg calls made by capability queries
  lastCall,           \* the last call on the caches and what it did
  \* sessions and their clones
  sessions,           \* the FfmpegCommand objects, in order of creation
  heap,               \* the argument lists and objects the sessions refer to
  sessCalls,          \* method calls made so far
  lastOp,             \* the last method call: [op, sess, threw]
  \* the session as _getArguments reads it
  argSess,            \* [inputs, global, complexFilters, outputs]
  argCalls,           \* configuration calls made so far
  argResult,          \* _getArguments' list and _prepare's: [done, args, patched, final]
  sizeData,           \* the output's sizeData: size, aspect, pad, each [in, ...]
  sizeFilters,        \* the output's size-filter list
  sizeLog,            \* size, aspect and autopad calls made: [op, kind, text]
  sizeThrew,          \* the message the last call threw, or ""
  ring,               \* the line ring: [max, lines, current, closed]
  ringCbs,            \* what each registered callback was called with, in order
  ringFed,            \* the chunks appended before close(), one after the other
  ringAll,            \* every line that was ever completed
  ringOps,            \* calls made on the ring, and the last one: [count, op]
  progDuration,       \* command._ffprobeData.format.duration: [known, seconds]
  progLine,           \* the stderr line extractProgress was last given
  progOut,            \* what that call did: [events, threw]
  progCalls,          \* calls of extractProgress so far
  codecObject,        \* the codecObject of the run: [inputStack, inInput]
  codecSent,          \* codecDataSent
  codecEvents,        \* the codecData events emitted: the records each carried
  codecLog,           \* the stderr lines of the run so far
  filtSpecs,          \* the filter array makeFilterStrings is given
  filtOut,            \* what the call did: [called, strings, again, after]
  aliasSess,          \* the current input and output of the session the methods act on
  aliasThrew,         \* the message the last method call threw, or ""
  aliasCalls,         \* method calls made so far
  aliasBuild,         \* how the build binds `arguments` in audioFilters
  killCalls,          \* kill() calls made so far
  killLast,           \* the last kill() call: [called, given, alive, sent, delivered, ...]
  probeInput,         \* what input 0 of the session is: "file" or "stream"
  probeListeners,     \* the events listeners were added for, in order
  probeOnce,          \* the once("newListener") handler of _prepare is registered
  probeCount,         \* ffprobe calls started by runFfprobe
  probeRun,           \* run() on the session: "idle", "started", "threw"
  metaInput,          \* ffprobe(): the input the call resolves to
  metaPhase,          \* ffprobe(): position of the call
  metaEnded,          \* ffprobe(): ended, the latch of handleCallback
  metaCallbacks,      \* ffprobe(): calls made to the callback, in order
  metaExited,         \* ffprobe(): processExited
  metaExitError,      \* ffprobe(): exitError is set
  metaStdoutClosed,   \* ffprobe(): stdoutClosed
  metaStderrClosed,   \* ffprobe(): stderrClosed
  metaEvents          \* ffprobe(): events the child and its stdin have emitted

vars == <<outputs, inputIsStream, timeoutSet, ffmpegPath, flvtoolPath,
          capsCached, pc, ended, events, uncaught, endCalls, ffmpegProc,
          procState, exitStatus, processExited, exitError, stdoutClosed,
          stderrClosed, stdoutStreamClosed, stdoutRing, stderrRing,
          processTimer, inputErrored, outErrored, outState, kills, lateKill,
          flvProc, flvCompleted, flvDone,
          capInputs, capOutputs, capCalls, capResult,
          cache, whichCache, env, pending, engineCalls, lastCall,
          sessions, heap, sessCalls, lastOp,
          argSess, argCalls, argResult,
          sizeData, sizeFilters, sizeLog, sizeThrew,
          ring, ringCbs, ringFed, ringAll, ringOps,
          progDuration, progLine, progOut, progCalls,
          codecObject, codecSent, codecEvents, codecLog,
          filtSpecs, filtOut,
          aliasSess, aliasThrew, aliasCalls, aliasBuild,
          killCalls, killLast,
          probeInput, probeListeners, probeOnce, probeCount, probeRun,
          metaInput, metaPhase, metaEnded, metaCallbacks, metaExited, metaExitError, metaStdoutClosed, metaStderrClosed, metaEvents>>

\* ------------------------------------------------------------ value sets
NoErr == "none"

ErrCannotFind   == "Cannot find ffmpeg"
ErrSpawn        == "spawn error"
ErrCapability   == "capability error"
ErrKilled       == "ffmpeg was killed with signal"
ErrExitCode     == "ffmpeg exited with code"
ErrTimeout      == "process ran into a timeout"
ErrInputStream  == "Input stream error"
ErrOutputStream == "Output stream error"
ErrOutputClosed == "Output stream closed"
ErrFlvtool      == "flvtool error"

\* an argument that was not passed (undefined) / a captured text
Undefined == [defined |-> FALSE, text |-> <<>>]
Text(t)   == [defined |-> TRUE,  text |-> t]

NullCode == -1
NotExited == [code |-> NullCode, signal |-> "none"]
ExitStatuses == { [code |-> 0, signal |-> "none"],
                  [code |-> 1, signal |-> "none"],
                  [code |-> NullCode, signal |-> "SIGKILL"] }

OutputKinds == {"file", "url", "stream"}
OutputRecs  == [kind : OutputKinds, flvmeta : BOOLEAN]

Streams(outs) == {i \in DOMAIN outs : outs[i].kind = "stream"}

\* sessions the configuration methods can build: the lone placeholder output
\* of the constructor, or 1..MaxOutputs targets with at most one stream
OutputConfigs ==
  { <<[kind |-> "none", flvmeta |-> f]>> : f \in BOOLEAN } \cup
  { outs \in UNION { [1..n -> OutputRecs] : n \in 1..MaxOutputs } :
      Cardinality(Streams(outs)) <= 1 }

\* ------------------------------------------------------- derived from run()
\* processor.ts:417 "target" in output
OutputPresent == \E i \in DOMAIN outputs : outputs[i].kind # "none"

\* processor.ts:426 the first output whose target is not a string
HasOutputStream == \E i \in DOMAIN outputs : outputs[i].kind \in {"stream", "none"}

\* processor.ts:458
CaptureStdout == ~HasOutputStream

TerminalEvents == SelectSeq(events, LAMBDA e : e.type \in {"end", "error"})

\* ----------------------------------------------------------------- emitEnd
NewEvent(err, so, se) ==
  [type |-> IF err # NoErr THEN "error" ELSE "end", err |-> err,
   stdout |-> so, stderr |-> se]

\* emitEnd without the 'ended' test: every call emits
EmitEndNoLatch(e, evs, err, so, se) ==
  [ended |-> TRUE, events |-> Append(evs, NewEvent(err, so, se))]

\* emitEnd whose latest call replaces the outcome of an earlier one
EmitEndLastWins(e, evs, err, so, se) ==
  [ended  |-> TRUE,
   events |-> Append(SelectSeq(evs, LAMBDA x : x.type = "start"),
                     NewEvent(err, so, se))]

EmitEnd(e, evs, err, so, se) ==
  IF ~e
    THEN [ended |-> TRUE, events |-> Append(evs, NewEvent(err, so, se))]
    ELSE [ended |-> e, events |-> evs]

\* --------------------------------------------------------------- _prepare
\* a waterfall that goes on to the next step after a failed validation
AfterValidationAnyway(err) == "prepare"

\* the waterfall of _prepare after its first step: an error skips the
\* remaining steps and goes to run's callback, which only emits it
AfterValidation(err) == IF err # NoErr THEN "rejected" ELSE "prepare"

\* the some() over the outputs of the flvmeta check: clears the flag of a
\* non-file output it visits and stops at the first output it returns true for
RECURSIVE FlvmetaCheck(_, _)
FlvmetaCheck(outs, i) ==
  IF i > Len(outs) THEN [outs |-> outs, found |-> FALSE]
  ELSE LET o    == outs[i]
           flag == IF o.flvmeta /\ o.kind # "file" THEN FALSE ELSE o.flvmeta
           outs2 == [outs EXCEPT ![i].flvmeta = flag]
       IN IF flag THEN [outs |-> outs2, found |-> TRUE]
                  ELSE FlvmetaCheck(outs2, i + 1)

\* the outputs run's completion callback post-processes
FlvmetaOutputs(outs) == {i \in DOMAIN outs : outs[i].flvmeta}

\* ---------------------------------------------------------- _spawnFfmpeg
ExitErrorOf(code, signal) ==
  IF signal # "none" THEN ErrKilled
  ELSE IF code # 0 /\ code # NullCode THEN ErrExitCode
  ELSE NoErr

\* handleExit that forgets the recorded error when called without one
ExitErrorAfterReset(prev, err) == err

ExitErrorAfter(prev, err) == IF err # NoErr THEN err ELSE prev

\* handleExit that does not wait for stderr to close
ExitCompleteNoStderr(exited, outClosed, errClosed, capture) ==
  exited /\ (outClosed \/ ~capture)

ExitComplete(exited, outClosed, errClosed, capture) ==
  exited /\ (outClosed \/ ~capture) /\ errClosed

\* a series loop: only the first iteration is started
FlvSpawnFirst(procs, todo) ==
  [i \in DOMAIN procs |->
     IF i \in todo /\ \A j \in todo : i <= j THEN "running" ELSE procs[i]]

\* async.each over the flvmeta outputs: every iteration is started at once
FlvSpawnAll(procs, todo) ==
  [i \in DOMAIN procs |-> IF i \in todo THEN "running" ELSE procs[i]]

\* a process callback that emits nothing
EmitStartNever(evs) == evs

\* self.emit("start", ...) in the process callback of run
EmitStart(evs) ==
  Append(evs, [type |-> "start", err |-> NoErr,
               stdout |-> Undefined, stderr |-> Undefined])

\* a completion callback that leaves the timer running
ClearTimeoutNever(timer) == timer

\* clearTimeout(self.processTimer)
ClearTimeout(timer) == IF timer = "armed" THEN "cleared" ELSE timer

\* run's completion callback (the endCB given to _spawnFfmpeg)
EndCB(err, rings, so, se) ==
  /\ endCalls' = Append(endCalls, [err |-> err, rings |-> rings])
  /\ processTimer' = ClearTimeout(processTimer)
  /\ ffmpegProc' = FALSE
  /\ IF err # NoErr
       THEN IF ~rings
              THEN \* stdoutRing.get() on undefined
                   /\ uncaught' = uncaught \cup {"TypeError"}
                   /\ UNCHANGED <<ended, events, flvProc>>
              ELSE LET r == EmitEnd(ended, events, err, Text(so), Text(se))
                   IN /\ ended' = r.ended
                      /\ events' = r.events
                      /\ UNCHANGED <<uncaught, flvProc>>
       ELSE IF FlvmetaOutputs(outputs) = {}
              THEN LET r == EmitEnd(ended, events, NoErr, Text(so), Text(se))
                   IN /\ ended' = r.ended
                      /\ events' = r.events
                      /\ UNCHANGED <<uncaught, flvProc>>
              ELSE IF flvtoolPath = ""
                     THEN \* spawn("") throws in the first iteration
                          /\ uncaught' = uncaught \cup {"ERR_INVALID_ARG_VALUE"}
                          /\ UNCHANGED <<ended, events, flvProc>>
                     ELSE /\ flvProc' = FlvSpawnAll(flvProc, FlvmetaOutputs(outputs))
                          /\ UNCHANGED <<ended, events, uncaught>>

EndCBVars == <<endCalls, processTimer, ffmpegProc, ended, events, uncaught, flvProc>>

HandleExit(err, exited, outClosed, errClosed, so, se) ==
  /\ exitError' = ExitErrorAfter(exitError, err)
  /\ IF ExitComplete(exited, outClosed, errClosed, CaptureStdout)
       THEN EndCB(exitError', TRUE, so, se)
       ELSE UNCHANGED EndCBVars

Kill(sig) ==
  /\ kills' = kills \cup {sig}
  /\ lateKill' = (lateKill \/ procState # "alive")

\* -------------------------------------------------------------------- Init
\* a session no configuration method has been called on: the constructor's
\* placeholder output and no input
NewOutput == [target |-> FALSE, options |-> <<>>, audio |-> <<>>, video |-> <<>>]

Unchecked == [checked |-> FALSE, err |-> NoErr, names |-> <<>>]

CapsIdle ==
  /\ capInputs = <<>>
  /\ capOutputs = <<NewOutput>>
  /\ capCalls = 0
  /\ capResult = Unchecked

CapsVars == <<capInputs, capOutputs, capCalls, capResult>>

\* ---------------------------------------------------- process-wide caches
Absent == "absent"

Kinds    == {"formats", "codecs", "encoders", "filters"}
PathKeys == {"ffmpegPath", "ffprobePath", "flvtoolPath"}
EnvNames == {"FFMPEG_PATH", "FFPROBE_PATH", "FLVMETA_PATH", "FLVTOOL2_PATH"}
ExeNames == {"ffmpeg", "ffprobe", "flvmeta", "flvtool2"}

\* environments: nothing installed; everything on the PATH; ffmpeg given by
\* its environment variable with ffprobe next to it and flvtool2 on the PATH
Environments ==
  { [vars |-> [v \in EnvNames |-> ""], path |-> [n \in ExeNames |-> ""],
     sibling |-> FALSE],
    [vars |-> [v \in EnvNames |-> ""],
     path |-> [n \in ExeNames |-> "/usr/bin"], sibling |-> TRUE],
    [vars |-> [v \in EnvNames |-> IF v = "FFMPEG_PATH" THEN "/env/ffmpeg" ELSE ""],
     path |-> [n \in ExeNames |-> IF n = "flvtool2" THEN "/usr/bin" ELSE ""],
     sibling |-> TRUE] }

NoCall == [op |-> "none", key |-> "", result |-> "", engine |-> FALSE,
           searched |-> {}]

\* nothing cached, no query made
CacheIdle ==
  /\ cache = [k \in Kinds \cup PathKeys |-> Absent]
  /\ whichCache = [n \in ExeNames |-> Absent]
  /\ env = [vars |-> [v \in EnvNames |-> ""],
            path |-> [n \in ExeNames |-> "/usr/bin"], sibling |-> TRUE]
  /\ pending = [k \in Kinds |-> 0]
  /\ engineCalls = 0
  /\ lastCall = NoCall

CacheVars == <<cache, whichCache, env, pending, engineCalls, lastCall>>

\* --------------------------------------------------- sessions and clones
NoOp == [op |-> "none", sess |-> 0, threw |-> ""]

\* no session constructed
SessIdle ==
  /\ sessions = <<>>
  /\ heap = <<>>
  /\ sessCalls = 0
  /\ lastOp = NoOp

SessVars == <<sessions, heap, sessCalls, lastOp>>

\* ------------------------------------------------------ argument assembly
\* a string is a sequence of pieces, so that joining and prefix tests are
\* computed; an argument list is a sequence of strings
Str(a) == <<a>>

NoTarget == [kind |-> "none", text |-> <<>>]

\* the output record output() creates
ArgOutputRec(target, isFile) ==
  [target |-> target, isFile |-> isFile, audio |-> <<>>, audioFilters |-> <<>>,
   video |-> <<>>, videoFilters |-> <<>>, sizeFilters |-> <<>>, options |-> <<>>]

\* the session the constructor leaves: no input, the target-less output
ArgNewSession ==
  [inputs |-> <<>>, global |-> <<>>, complexFilters |-> <<>>,
   outputs |-> <<ArgOutputRec(NoTarget, FALSE)>>]

NotAssembled == [done |-> FALSE, args |-> <<>>, patched |-> FALSE, final |-> <<>>]

ArgsIdle ==
  /\ argSess = ArgNewSession
  /\ argCalls = 0
  /\ argResult = NotAssembled

ArgsVars == <<argSess, argCalls, argResult>>


\* a sizeData with no key
NoSizeData ==
  [size   |-> [in |-> FALSE, text |-> <<>>],
   aspect |-> [in |-> FALSE, n |-> 0, d |-> 1],
   pad    |-> [in |-> FALSE, on |-> FALSE, color |-> ""]]

SizeIdle ==
  /\ sizeData = NoSizeData
  /\ sizeFilters = <<>>
  /\ sizeLog = <<>>
  /\ sizeThrew = ""

SizeVars == <<sizeData, sizeFilters, sizeLog, sizeThrew>>


\* the ring linesRing(maxLines) returns: no line, no pending line, open
NewRing(maxLines) ==
  [max |-> maxLines - 1, lines |-> <<>>,
   current |-> [set |-> FALSE, text |-> <<>>], closed |-> FALSE]

RingIdle ==
  /\ ring = NewRing(0)
  /\ ringCbs = <<>>
  /\ ringFed = <<>>
  /\ ringAll = <<>>
  /\ ringOps = [count |-> 0, op |-> "none"]

RingVars == <<ring, ringCbs, ringFed, ringAll, ringOps>>


\* no metadata was read: _ffprobeData is not set
NoDuration == [known |-> FALSE, seconds |-> 0]

\* extractProgress has not been called
NoProgressOut == [events |-> <<>>, threw |-> ""]

ProgIdle ==
  /\ progDuration = NoDuration
  /\ progLine = <<>>
  /\ progOut = NoProgressOut
  /\ progCalls = 0

ProgVars == <<progDuration, progLine, progOut, progCalls>>


\* the codecObject before the first line: no inputStack yet
NewCodecObject == [inputStack |-> <<>>, inInput |-> FALSE]

CodecIdle ==
  /\ codecObject = NewCodecObject
  /\ codecSent = FALSE
  /\ codecEvents = <<>>
  /\ codecLog = <<>>

CodecVars == <<codecObject, codecSent, codecEvents, codecLog>>


\* ------------------------------------------------------ makeFilterStrings
\* before makeFilterStrings is called
NoFilterResult ==
  [called |-> FALSE, strings |-> <<>>, again |-> <<>>, after |-> <<>>]

FiltIdle ==
  /\ filtSpecs = <<>>
  /\ filtOut = NoFilterResult

FiltVars == <<filtSpecs, filtOut>>


\* ------------------------------------------------------ the method table
\* a new session: no current input, the placeholder output with empty lists
AliasNewSession ==
  [input        |-> [present |-> FALSE, options |-> <<>>],
   options      |-> <<>>,
   video        |-> <<>>,
   videoFilters |-> <<>>,
   audioFilters |-> <<>>]

AliasIdle ==
  /\ aliasSess = AliasNewSession
  /\ aliasThrew = ""
  /\ aliasCalls = 0
  /\ aliasBuild = "own"

AliasVars == <<aliasSess, aliasThrew, aliasCalls, aliasBuild>>


\* ------------------------------------------------------------------ kill()
\* before kill() is called
NoKill ==
  [called |-> FALSE, given |-> "undefined", alive |-> FALSE, sent |-> "none",
   delivered |-> FALSE, before |-> 0, after |-> 0]

UserKillIdle ==
  /\ killCalls = 0
  /\ killLast = NoKill

UserKillVars == <<killCalls, killLast>>


\* ------------------------------------------------- metadata for progress
ProbeIdle ==
  /\ probeInput = "file"
  /\ probeListeners = <<>>
  /\ probeOnce = FALSE
  /\ probeCount = 0
  /\ probeRun = "idle"

ProbeVars == <<probeInput, probeListeners, probeOnce, probeCount, probeRun>>

\* ------------------------------------------------------------- ffprobe()
MetaIdle ==
  /\ metaInput = "file"
  /\ metaPhase = "idle"
  /\ metaEnded = FALSE
  /\ metaCallbacks = <<>>
  /\ metaExited = FALSE
  /\ metaExitError = FALSE
  /\ metaStdoutClosed = FALSE
  /\ metaStderrClosed = FALSE
  /\ metaEvents = {}

MetaVars ==
  <<metaInput, metaPhase, metaEnded, metaCallbacks, metaExited, metaExitError,
    metaStdoutClosed, metaStderrClosed, metaEvents>>

\* the variables a run() neither reads nor writes
OffRunVars == <<CapsVars, CacheVars, SessVars, ArgsVars, SizeVars, RingVars, ProgVars, CodecVars, FiltVars, AliasVars, UserKillVars, ProbeVars, MetaVars>>

RunInit ==
  /\ outputs \in OutputConfigs
  /\ inputIsStream \in BOOLEAN
  /\ timeoutSet \in BOOLEAN
  /\ ffmpegPath \in {"", "ffmpeg"}
  /\ flvtoolPath \in {"", "flvmeta"}
  /\ capsCached \in BOOLEAN
  /\ pc = "idle"
  /\ ended = FALSE
  /\ events = <<>>
  /\ uncaught = {}
  /\ endCalls = <<>>
  /\ ffmpegProc = FALSE
  /\ procState = "none"
  /\ exitStatus = NotExited
  /\ processExited = FALSE
  /\ exitError = NoErr
  /\ stdoutClosed = FALSE
  /\ stderrClosed = FALSE
  /\ stdoutStreamClosed = FALSE
  /\ stdoutRing = [text |-> <<>>, closed |-> FALSE]
  /\ stderrRing = [text |-> <<>>, closed |-> FALSE]
  /\ processTimer = "unset"
  /\ inputErrored = FALSE
  /\ outErrored = FALSE
  /\ outState = "open"
  /\ kills = {}
  /\ lateKill = FALSE
  /\ flvProc = [i \in DOMAIN outputs |-> "none"]
  /\ flvCompleted = 0
  /\ flvDone = FALSE

\* a run that is never started, of a session with the placeholder output
RunIdle ==
  /\ outputs = <<[kind |-> "none", flvmeta |-> FALSE]>>
  /\ inputIsStream = FALSE
  /\ timeoutSet = FALSE
  /\ ffmpegPath = "ffmpeg"
  /\ flvtoolPath = "flvmeta"
  /\ capsCached = FALSE
  /\ RunInit

Init ==
  /\ RunInit
  /\ CapsIdle
  /\ CacheIdle
  /\ SessIdle
  /\ ArgsIdle
  /\ SizeIdle
  /\ RingIdle
  /\ ProgIdle
  /\ CodecIdle
  /\ FiltIdle
  /\ AliasIdle
  /\ UserKillIdle
  /\ ProbeIdle
  /\ MetaIdle

ConfigVars == <<inputIsStream, timeoutSet, ffmpegPath, flvtoolPath>>
SpawnVars == <<procState, exitStatus, processExited, exitError, stdoutClosed,
               stderrClosed, stdoutStreamClosed, stdoutRing, stderrRing>>
StreamVars == <<inputErrored, outErrored, outState>>
KillVars == <<kills, lateKill>>
FlvVars == <<flvProc, flvCompleted, flvDone>>

\* ----------------------------------------------------------------- actions
\* run(): throws when no output has a target, else starts _prepare
Run ==
  /\ pc = "idle"
  /\ pc' = IF OutputPresent THEN "capabilities" ELSE "thrown"
  /\ uncaught' = IF OutputPresent THEN uncaught ELSE uncaught \cup {"No output specified"}
  /\ UNCHANGED <<outputs, ConfigVars, OffRunVars, capsCached, ended, events, endCalls,
                 ffmpegProc, SpawnVars, processTimer, StreamVars, KillVars, FlvVars>>

\* _prepare, first step: _checkCapabilities.  The maps come from the cache or
\* from an engine query (which needs the engine path and may fail); the
\* session's formats and codecs are then found supported or not.
CheckCapabilities ==
  /\ pc = "capabilities"
  /\ \E queryOk \in BOOLEAN, supported \in BOOLEAN :
       LET err == IF ~capsCached /\ ffmpegPath = "" THEN ErrCannotFind
                  ELSE IF ~capsCached /\ ~queryOk THEN ErrSpawn
                  ELSE IF ~supported THEN ErrCapability
                  ELSE NoErr
           r == EmitEnd(ended, events, err, Undefined, Undefined)
       IN /\ capsCached' = (capsCached \/ (ffmpegPath # "" /\ queryOk))
          /\ pc' = AfterValidation(err)
          /\ IF err # NoErr
               THEN /\ ended' = r.ended
                    /\ events' = r.events
               ELSE UNCHANGED <<ended, events>>
  /\ UNCHANGED <<outputs, ConfigVars, OffRunVars, uncaught, endCalls, ffmpegProc, SpawnVars,
                 processTimer, StreamVars, KillVars, FlvVars>>

\* _prepare, remaining steps: the flvmeta check (_getFlvtoolPath never
\* reports an error: a tool that is not found resolves to ""), the argument
\* list and the experimental patch
PrepareArgs ==
  /\ pc = "prepare"
  /\ outputs' = FlvmetaCheck(outputs, 1).outs
  /\ pc' = "spawn"
  /\ UNCHANGED <<ConfigVars, OffRunVars, capsCached, ended, events, uncaught, endCalls,
                 ffmpegProc, SpawnVars, processTimer, StreamVars, KillVars, FlvVars>>

\* _spawnFfmpeg up to and including processCB
SpawnFfmpeg ==
  /\ pc = "spawn"
  /\ IF ffmpegPath = ""
       THEN /\ EndCB(ErrCannotFind, FALSE, <<>>, <<>>)
            /\ pc' = "failed"
            /\ UNCHANGED procState
       ELSE /\ procState' = "alive"
            /\ ffmpegProc' = TRUE
            /\ events' = EmitStart(events)
            /\ processTimer' = IF timeoutSet THEN "armed" ELSE processTimer
            /\ pc' = "running"
            /\ UNCHANGED <<endCalls, ended, uncaught, flvProc>>
  /\ UNCHANGED <<outputs, ConfigVars, OffRunVars, capsCached, exitStatus, processExited,
                 exitError, stdoutClosed, stderrClosed, stdoutStreamClosed,
                 stdoutRing, stderrRing, StreamVars, KillVars, flvCompleted, flvDone>>

\* ffmpegProc.on("error")
ProcError ==
  /\ pc = "running"
  /\ procState = "alive"
  /\ procState' = "errored"
  /\ EndCB(ErrSpawn, FALSE, <<>>, <<>>)
  /\ UNCHANGED <<outputs, ConfigVars, OffRunVars, capsCached, pc, exitStatus, processExited,
                 exitError, stdoutClosed, stderrClosed, stdoutStreamClosed,
                 stdoutRing, stderrRing, StreamVars, KillVars, flvCompleted, flvDone>>

\* ffmpegProc.on("exit")
ProcExit ==
  /\ pc = "running"
  /\ procState = "alive"
  /\ \E st \in ExitStatuses :
       /\ procState' = "exited"
       /\ exitStatus' = st
       /\ processExited' = TRUE
       /\ HandleExit(ExitErrorOf(st.code, st.signal), TRUE, stdoutClosed,
                     stderrClosed, stdoutRing.text, stderrRing.text)
  /\ UNCHANGED <<outputs, ConfigVars, OffRunVars, capsCached, pc, stdoutClosed, stderrClosed,
                 stdoutStreamClosed, stdoutRing, stderrRing, StreamVars, KillVars,
                 flvCompleted, flvDone>>

\* ffmpegProc.stdout.on("data"), registered only when stdout is captured
StdoutData ==
  /\ pc = "running"
  /\ CaptureStdout
  /\ ~stdoutStreamClosed
  /\ Len(stdoutRing.text) < MaxChunks
  /\ stdoutRing' = [stdoutRing EXCEPT !.text = Append(@, Len(@) + 1)]
  /\ UNCHANGED <<outputs, ConfigVars, OffRunVars, capsCached, pc, ended, events, uncaught,
                 endCalls, ffmpegProc, procState, exitStatus, processExited,
                 exitError, stdoutClosed, stderrClosed, stdoutStreamClosed,
                 stderrRing, processTimer, StreamVars, KillVars, FlvVars>>

\* ffmpegProc.stderr.on("data")
StderrData ==
  /\ pc = "running"
  /\ ~stderrClosed
  /\ Len(stderrRing.text) < MaxChunks
  /\ stderrRing' = [stderrRing EXCEPT !.text = Append(@, Len(@) + 1)]
  /\ UNCHANGED <<outputs, ConfigVars, OffRunVars, capsCached, pc, ended, events, uncaught,
                 endCalls, ffmpegProc, procState, exitStatus, processExited,
                 exitError, stdoutClosed, stderrClosed, stdoutStreamClosed,
                 stdoutRing, processTimer, StreamVars, KillVars, FlvVars>>

\* the process's stdout closes; the handler exists only when it is captured
StdoutClose ==
  /\ pc = "running"
  /\ ~stdoutStreamClosed
  /\ stdoutStreamClosed' = TRUE
  /\ IF CaptureStdout
       THEN /\ stdoutRing' = [stdoutRing EXCEPT !.closed = TRUE]
            /\ stdoutClosed' = TRUE
            /\ HandleExit(NoErr, processExited, TRUE, stderrClosed,
                          stdoutRing.text, stderrRing.text)
       ELSE UNCHANGED <<stdoutRing, stdoutClosed, exitError, EndCBVars>>
  /\ UNCHANGED <<outputs, ConfigVars, OffRunVars, capsCached, pc, procState, exitStatus,
                 processExited, stderrClosed, stderrRing, StreamVars, KillVars,
                 flvCompleted, flvDone>>

\* ffmpegProc.stderr.on("close")
StderrClose ==
  /\ pc = "running"
  /\ ~stderrClosed
  /\ stderrRing' = [stderrRing EXCEPT !.closed = TRUE]
  /\ stderrClosed' = TRUE
  /\ HandleExit(NoErr, processExited, stdoutClosed, TRUE,
                stdoutRing.text, stderrRing.text)
  /\ UNCHANGED <<outputs, ConfigVars, OffRunVars, capsCached, pc, procState, exitStatus,
                 processExited, stdoutClosed, stdoutStreamClosed, stdoutRing,
                 StreamVars, KillVars, flvCompleted, flvDone>>

\* inputStream.source.on("error")
InputStreamError ==
  /\ pc = "running"
  /\ inputIsStream
  /\ ~inputErrored
  /\ inputErrored' = TRUE
  /\ LET r == EmitEnd(ended, events, ErrInputStream, Undefined, Undefined)
     IN /\ ended' = r.ended
        /\ events' = r.events
  /\ Kill("SIGTERM")
  /\ UNCHANGED <<outputs, ConfigVars, OffRunVars, capsCached, pc, uncaught, endCalls,
                 ffmpegProc, SpawnVars, processTimer, outErrored, outState, FlvVars>>

\* the callback of self.processTimer
Timeout ==
  /\ pc = "running"
  /\ processTimer = "armed"
  /\ processTimer' = "fired"
  /\ LET r == EmitEnd(ended, events, ErrTimeout, Text(stdoutRing.text),
                      Text(stderrRing.text))
     IN /\ ended' = r.ended
        /\ events' = r.events
  /\ Kill("SIGTERM")
  /\ UNCHANGED <<outputs, ConfigVars, OffRunVars, capsCached, pc, uncaught, endCalls,
                 ffmpegProc, SpawnVars, StreamVars, FlvVars>>

\* outputStream.target.on("close"): schedules the kill 20 ms later
OutputStreamClose ==
  /\ pc = "running"
  /\ HasOutputStream
  /\ outState = "open"
  /\ outState' = "closeScheduled"
  /\ UNCHANGED <<outputs, ConfigVars, OffRunVars, capsCached, pc, ended, events, uncaught,
                 endCalls, ffmpegProc, SpawnVars, processTimer, inputErrored,
                 outErrored, KillVars, FlvVars>>

\* the callback of the 20 ms timer
OutputCloseTimer ==
  /\ pc = "running"
  /\ outState = "closeScheduled"
  /\ outState' = "closed"
  /\ LET r == EmitEnd(ended, events, ErrOutputClosed, Undefined, Undefined)
     IN /\ ended' = r.ended
        /\ events' = r.events
  /\ Kill("SIGTERM")
  /\ UNCHANGED <<outputs, ConfigVars, OffRunVars, capsCached, pc, uncaught, endCalls,
                 ffmpegProc, SpawnVars, processTimer, inputErrored, outErrored,
                 FlvVars>>

\* outputStream.target.on("error")
OutputStreamError ==
  /\ pc = "running"
  /\ HasOutputStream
  /\ ~outErrored
  /\ outErrored' = TRUE
  /\ LET r == EmitEnd(ended, events, ErrOutputStream, Text(stdoutRing.text),
                      Text(stderrRing.text))
     IN /\ ended' = r.ended
        /\ events' = r.events
  /\ Kill("SIGKILL")
  /\ UNCHANGED <<outputs, ConfigVars, OffRunVars, capsCached, pc, uncaught, endCalls,
                 ffmpegProc, SpawnVars, processTimer, inputErrored, outState,
                 FlvVars>>

\* the "exit" handler of a post-processing process: code !== 0 || signal
FlvExitError(code, signal) ==
  IF code # 0 \/ signal # "none" THEN ErrFlvtool ELSE NoErr

\* the callback async.each hands to each iteration, and its final callback
FlvIterCb(err) ==
  IF err # NoErr
    THEN /\ flvCompleted' = flvCompleted
         /\ flvDone' = TRUE
         /\ IF ~flvDone
              THEN LET r == EmitEnd(ended, events, err, Undefined, Undefined)
                   IN /\ ended' = r.ended
                      /\ events' = r.events
              ELSE UNCHANGED <<ended, events>>
    ELSE /\ flvCompleted' = flvCompleted + 1
         /\ IF ~flvDone /\ flvCompleted' = Cardinality(FlvmetaOutputs(outputs))
              THEN /\ flvDone' = TRUE
                   /\ LET r == EmitEnd(ended, events, NoErr, Text(stdoutRing.text),
                                       Text(stderrRing.text))
                      IN /\ ended' = r.ended
                         /\ events' = r.events
              ELSE UNCHANGED <<flvDone, ended, events>>

\* the post-processing process of output i exits
FlvExit ==
  /\ pc = "running"
  /\ \E i \in DOMAIN flvProc, st \in ExitStatuses :
       /\ flvProc[i] = "running"
       /\ flvProc' = [flvProc EXCEPT ![i] = IF FlvExitError(st.code, st.signal) = NoErr
                                              THEN "ok" ELSE "failed"]
       /\ FlvIterCb(FlvExitError(st.code, st.signal))
  /\ UNCHANGED <<outputs, ConfigVars, OffRunVars, capsCached, pc, uncaught, endCalls,
                 ffmpegProc, SpawnVars, processTimer, StreamVars, KillVars>>

\* the post-processing process of output i reports a spawn error
FlvError ==
  /\ pc = "running"
  /\ \E i \in DOMAIN flvProc :
       /\ flvProc[i] = "running"
       /\ flvProc' = [flvProc EXCEPT ![i] = "errored"]
       /\ FlvIterCb(ErrFlvtool)
  /\ UNCHANGED <<outputs, ConfigVars, OffRunVars, capsCached, pc, uncaught, endCalls,
                 ffmpegProc, SpawnVars, processTimer, StreamVars, KillVars>>

Next ==
  \/ Run
  \/ CheckCapabilities
  \/ PrepareArgs
  \/ SpawnFfmpeg
  \/ ProcError
  \/ ProcExit
  \/ StdoutData
  \/ StderrData
  \/ StdoutClose
  \/ StderrClose
  \/ InputStreamError
  \/ Timeout
  \/ OutputStreamClose
  \/ OutputCloseTimer
  \/ OutputStreamError
  \/ FlvExit
  \/ FlvError

Spec == Init /\ [][Next]_vars

\* ------------------------------------------------------------ properties
\* the run's completion callback has been called
ExitReported == endCalls # <<>>

Running(procs) == {i \in DOMAIN procs : procs[i] = "running"}

\* C1: a run emits at most one terminal event: never both 'end' and 'error',
\* and never either of them twice, whatever triggers occur and in any order.
C1_AtMostOneTerminal == Len(TerminalEvents) <= 1

\* a nonzero exit has been reported and the output stream has failed as well
C1_Witness ==
  /\ Len(TerminalEvents) = 1
  /\ outErrored
  /\ ExitReported
  /\ exitStatus = [code |-> 1, signal |-> "none"]

\* C2: the first trigger to report decides the terminal event.  A timeout, an
\* input-stream error or an output-stream error that occurs before the exit
\* is reported, with no terminal event emitted yet, makes the terminal event
\* the 'error' of that trigger; once a terminal event exists no later step
\* (exit, stream close, other trigger) replaces it or adds another.
C2_FirstTriggerWins ==
  [][ /\ (TerminalEvents # <<>> => TerminalEvents' = TerminalEvents)
      /\ (/\ processTimer = "armed" /\ processTimer' = "fired"
          /\ ~ExitReported /\ TerminalEvents = <<>>
          => /\ Len(TerminalEvents') = 1
             /\ TerminalEvents'[1].type = "error"
             /\ TerminalEvents'[1].err = ErrTimeout)
      /\ (/\ ~inputErrored /\ inputErrored'
          /\ ~ExitReported /\ TerminalEvents = <<>>
          => /\ Len(TerminalEvents') = 1
             /\ TerminalEvents'[1].type = "error"
             /\ TerminalEvents'[1].err = ErrInputStream)
      /\ (/\ ~outErrored /\ outErrored'
          /\ ~ExitReported /\ TerminalEvents = <<>>
          => /\ Len(TerminalEvents') = 1
             /\ TerminalEvents'[1].type = "error"
             /\ TerminalEvents'[1].err = ErrOutputStream) ]_vars

\* the timeout won, and the exit by signal reported afterwards changed nothing
C2_Witness ==
  /\ processTimer = "fired"
  /\ ExitReported
  /\ endCalls[1].err = ErrKilled
  /\ Len(TerminalEvents) = 1
  /\ TerminalEvents[1].err = ErrTimeout

\* C3: 'end' is emitted only after the exit has been observed with code 0 and
\* no signal, stderr has closed and, when stdout is captured, stdout has
\* closed; when stdout is not captured 'end' does not depend on its close.
C3_EndAfterExitAndCloses ==
  \A k \in DOMAIN events :
    events[k].type = "end" =>
      /\ processExited
      /\ exitStatus = [code |-> 0, signal |-> "none"]
      /\ stderrClosed
      /\ (CaptureStdout => stdoutClosed)

\* 'end' emitted while the uncaptured stdout of the process is still open
C3_Witness ==
  /\ Len(TerminalEvents) = 1
  /\ TerminalEvents[1].type = "end"
  /\ ~CaptureStdout
  /\ ~stdoutStreamClosed

\* C4: (finite-run form) once the engine of a prepared and spawned run has
\* exited, its required streams have closed and no started post-processing
\* process is still running, a terminal event has been emitted.
C4_TerminalWhenQuiescent ==
  (/\ pc = "running"
   /\ procState = "exited"
   /\ stderrClosed
   /\ (CaptureStdout => stdoutClosed)
   /\ Running(flvProc) = {})
  => TerminalEvents # <<>>

\* C5: the outcome recorded at exit is kept until the required streams have
\* closed: while the closes are awaited the recorded error is the one of the
\* exit status (signal: killed; else nonzero code: exited with code; else
\* none), and the completion callback is called with exactly that outcome,
\* once, and only after exit and the required closes.
C5_ExitOutcomeKept ==
  LET outcome == IF exitStatus.signal # "none" THEN ErrKilled
                 ELSE IF exitStatus.code = 1 THEN ErrExitCode
                 ELSE NoErr
      calls == SelectSeq(endCalls, LAMBDA c : c.rings)
  IN /\ (processExited => exitError = outcome)
     /\ Len(calls) <= 1
     /\ \A k \in DOMAIN calls :
          /\ calls[k].err = outcome
          /\ processExited /\ stderrClosed /\ (CaptureStdout => stdoutClosed)

\* a kill by signal was reported, after all closes, as the killed error
C5_Witness ==
  /\ endCalls = <<[err |-> ErrKilled, rings |-> TRUE]>>
  /\ CaptureStdout /\ stdoutClosed /\ stderrClosed
  /\ Len(TerminalEvents) = 1
  /\ TerminalEvents[1].err = ErrKilled

\* C6: when the engine path is empty or the spawn reports an error, the run
\* ends with exactly one 'error' event carrying that error, and no exception
\* escapes from the completion callback.
C6_SpawnFailureReported ==
  \A k \in DOMAIN endCalls :
    ~endCalls[k].rings =>
      /\ uncaught = {}
      /\ Len(TerminalEvents) = 1
      /\ TerminalEvents[1].type = "error"
      /\ TerminalEvents[1].err = endCalls[k].err

\* C7: every 'error' event emitted after the engine has been spawned carries
\* the stdout and stderr text captured up to that point.
C7_ErrorCarriesCapturedText ==
  [][ (/\ pc = "running"
       /\ Len(events') = Len(events) + 1
       /\ events'[Len(events')].type = "error")
      => /\ events'[Len(events')].stdout = Text(stdoutRing'.text)
         /\ events'[Len(events')].stderr = Text(stderrRing'.text) ]_vars

\* C8: 'end' only after the post-processing of every file output that
\* requested it has exited with code 0 and no signal; a failed
\* post-processing makes the single terminal event an 'error'; no
\* post-processing for an output that is not a file, nor after an engine
\* failure.
C8_PostProcessing ==
  /\ (\E k \in DOMAIN events : events[k].type = "end")
       => \A i \in DOMAIN outputs :
            (outputs[i].kind = "file" /\ outputs[i].flvmeta) => flvProc[i] = "ok"
  /\ (\E i \in DOMAIN flvProc : flvProc[i] \in {"failed", "errored"})
       => (Len(TerminalEvents) = 1 /\ TerminalEvents[1].type = "error")
  /\ \A i \in DOMAIN flvProc :
       flvProc[i] # "none" =>
         /\ outputs[i].kind = "file"
         /\ exitStatus = [code |-> 0, signal |-> "none"]

\* C9 as stated: at most one post-processing process is running at any time.
C9_Sequential == Cardinality(Running(flvProc)) <= 1

\* C9 as amended: the post-processing processes of all outputs that carry the
\* flvmeta flag are started together by the completion callback: whenever one
\* of them has been started every one of them has, and no other output has
\* one.
C9_StartedTogether ==
  /\ (\E i \in DOMAIN flvProc : flvProc[i] # "none")
       => \A j \in FlvmetaOutputs(outputs) : flvProc[j] # "none"
  /\ \A j \in DOMAIN flvProc :
       flvProc[j] # "none" => j \in FlvmetaOutputs(outputs)

\* two post-processing processes are running at the same time
C9_Witness == Cardinality(Running(flvProc)) = 2

\* C10: with a file output that requests flvmeta and a post-processor that
\* resolves to the empty path, the engine is never spawned and, once
\* preparation is over, the run has ended with a single 'error' event.
C10_FlvtoolNotFound ==
  (/\ flvtoolPath = ""
   /\ \E i \in DOMAIN outputs : outputs[i].kind = "file" /\ outputs[i].flvmeta)
  => /\ procState = "none"
     /\ pc \notin {"idle", "capabilities", "prepare"}
          => (Len(TerminalEvents) = 1 /\ TerminalEvents[1].type = "error")

\* C11: when capability validation fails the run emits 'error' and the engine
\* is never spawned; the arguments are assembled and the engine is spawned
\* only after validation has succeeded (no validation error was emitted).
C11_ValidationBeforeSpawn ==
  LET rejected == \E k \in DOMAIN events : events[k].err = ErrCapability
  IN /\ rejected => /\ pc = "rejected"
                     /\ procState = "none"
                     /\ endCalls = <<>>
                     /\ Len(TerminalEvents) = 1
                     /\ TerminalEvents[1].type = "error"
     /\ pc = "rejected" => (procState = "none" /\ TerminalEvents # <<>>)
     /\ (pc \in {"spawn", "running", "failed"} \/ procState # "none") => ~rejected

\* an unsupported format or codec has been reported
C11_Witness ==
  /\ pc = "rejected"
  /\ Len(TerminalEvents) = 1
  /\ TerminalEvents[1].err = ErrCapability

(***************************************************************************)
(* Capability validation (src/examples/merge.ts, _checkCapabilities): a    *)
(* session is configured by input(), inputFormat(), output(), format(),    *)
(* audioCodec() and videoCodec() calls and then validated against the      *)
(* formats and encoders maps.                                              *)
(***************************************************************************)
\* cache.formats as parsed from the engine's listing: a format both ways, a
\* demux-only one, a mux-only one; "nofmt" is not listed
AvailableFormats ==
  [f \in {"mp4", "lavfi", "psp"} |->
     [canDemux |-> f \in {"mp4", "lavfi"}, canMux |-> f \in {"mp4", "psp"}]]

\* cache.encoders; "nocodec" is not listed
AvailableEncoders ==
  [c \in {"aac", "libx264"} |->
     [type |-> IF c = "aac" THEN "audio" ELSE "video", experimental |-> c = "aac"]]

FormatNames == {"mp4", "lavfi", "psp", "nofmt"}
CodecNames  == {"copy", "aac", "libx264", "nocodec"}

\* args.find that looks for the last occurrence of arg
FindLast(list, arg) ==
  IF \E i \in DOMAIN list : list[i] = arg
    THEN LET i == CHOOSE k \in DOMAIN list :
                    list[k] = arg /\ \A j \in DOMAIN list : list[j] = arg => j <= k
         IN [found |-> TRUE,
             value |-> IF i < Len(list) THEN list[i + 1] ELSE "undefined"]
    ELSE [found |-> FALSE, value |-> "undefined"]

\* args.find(arg, 1): list.indexOf(arg) and the item that follows it
Find(list, arg) ==
  IF \E i \in DOMAIN list : list[i] = arg
    THEN LET i == CHOOSE k \in DOMAIN list :
                    list[k] = arg /\ \A j \in DOMAIN list : list[j] = arg => k <= j
         IN [found |-> TRUE,
             value |-> IF i < Len(list) THEN list[i + 1] ELSE "undefined"]
    ELSE [found |-> FALSE, value |-> "undefined"]

\* the reduce over a list of find results: the values that are not among the
\* acceptable ones, in the order of their inputs or outputs
Unavailable(finds, ok) ==
  LET bad == SelectSeq(finds, LAMBDA r : r.found /\ r.value \notin ok)
  IN [i \in DOMAIN bad |-> bad[i].value]

CanMux(f)   == f \in DOMAIN AvailableFormats /\ AvailableFormats[f].canMux
CanDemux(f) == f \in DOMAIN AvailableFormats /\ AvailableFormats[f].canDemux
AudioOk(c) ==
  c = "copy" \/ (c \in DOMAIN AvailableEncoders /\ AvailableEncoders[c].type = "audio")
VideoOk(c) ==
  c = "copy" \/ (c \in DOMAIN AvailableEncoders /\ AvailableEncoders[c].type = "video")

CapError(kind, names) == [checked |-> TRUE, err |-> kind, names |-> names]

\* a codec step that reports the unavailable codecs of both kinds in one error
CheckCodecsTogether(outs) ==
  LET ua == Unavailable([i \in DOMAIN outs |-> Find(outs[i].audio, "-acodec")], {c \in CodecNames : AudioOk(c)})
      uv == Unavailable([i \in DOMAIN outs |-> Find(outs[i].video, "-vcodec")], {c \in CodecNames : VideoOk(c)})
  IN IF ua \o uv # <<>> THEN CapError("Codec", ua \o uv)
     ELSE CapError(NoErr, <<>>)

\* the codec step of the waterfall: audio codecs first, then video codecs
CheckCodecs(outs) ==
  LET ua == Unavailable([i \in DOMAIN outs |-> Find(outs[i].audio, "-acodec")], {c \in CodecNames : AudioOk(c)})
      uv == Unavailable([i \in DOMAIN outs |-> Find(outs[i].video, "-vcodec")], {c \in CodecNames : VideoOk(c)})
  IN IF ua # <<>> THEN CapError("Audio codec", ua)
     ELSE IF uv # <<>> THEN CapError("Video codec", uv)
     ELSE CapError(NoErr, <<>>)

\* the format step of the waterfall: output formats first, then input formats
CheckFormats(ins, outs) ==
  LET uo == Unavailable([i \in DOMAIN outs |-> Find(outs[i].options, "-f")], {f \in FormatNames : CanMux(f)})
      ui == Unavailable([i \in DOMAIN ins |-> Find(ins[i], "-f")], {f \in FormatNames : CanDemux(f)})
  IN IF uo # <<>> THEN CapError("Output format", uo)
     ELSE IF ui # <<>> THEN CapError("Input format", ui)
     ELSE CapError(NoErr, <<>>)

\* _checkCapabilities with both maps available: the first failing step decides
CheckCapabilitiesOf(ins, outs) ==
  IF CheckFormats(ins, outs).err # NoErr THEN CheckFormats(ins, outs)
  ELSE CheckCodecs(outs)

CapConfigurable == ~capResult.checked /\ capCalls < MaxCapCalls

\* input(file): the new input becomes the current one
CapAddInput ==
  /\ CapConfigurable
  /\ capInputs' = Append(capInputs, <<>>)
  /\ capCalls' = capCalls + 1
  /\ UNCHANGED <<capOutputs, capResult>>

\* inputFormat(f): appends to the current input's options
CapInputFormat ==
  /\ CapConfigurable
  /\ capInputs # <<>>
  /\ \E f \in FormatNames :
       capInputs' = [capInputs EXCEPT ![Len(capInputs)] = @ \o <<"-f", f>>]
  /\ capCalls' = capCalls + 1
  /\ UNCHANGED <<capOutputs, capResult>>

\* output(file): fills the placeholder output or adds an output
CapAddOutput ==
  /\ CapConfigurable
  /\ capOutputs' = IF ~capOutputs[Len(capOutputs)].target
                     THEN [capOutputs EXCEPT ![Len(capOutputs)].target = TRUE]
                     ELSE Append(capOutputs, [NewOutput EXCEPT !.target = TRUE])
  /\ capCalls' = capCalls + 1
  /\ UNCHANGED <<capInputs, capResult>>

\* format(f)
CapFormat ==
  /\ CapConfigurable
  /\ \E f \in FormatNames :
       capOutputs' = [capOutputs EXCEPT ![Len(capOutputs)].options = @ \o <<"-f", f>>]
  /\ capCalls' = capCalls + 1
  /\ UNCHANGED <<capInputs, capResult>>

\* audioCodec(c)
CapAudioCodec ==
  /\ CapConfigurable
  /\ \E c \in CodecNames :
       capOutputs' = [capOutputs EXCEPT ![Len(capOutputs)].audio = @ \o <<"-acodec", c>>]
  /\ capCalls' = capCalls + 1
  /\ UNCHANGED <<capInputs, capResult>>

\* videoCodec(c)
CapVideoCodec ==
  /\ CapConfigurable
  /\ \E c \in CodecNames :
       capOutputs' = [capOutputs EXCEPT ![Len(capOutputs)].video = @ \o <<"-vcodec", c>>]
  /\ capCalls' = capCalls + 1
  /\ UNCHANGED <<capInputs, capResult>>

\* _checkCapabilities(callback)
CapCheck ==
  /\ ~capResult.checked
  /\ capResult' = CheckCapabilitiesOf(capInputs, capOutputs)
  /\ UNCHANGED <<capInputs, capOutputs, capCalls>>

RunVars == <<outputs, ConfigVars, capsCached, pc, ended, events, uncaught,
             endCalls, ffmpegProc, SpawnVars, processTimer, StreamVars,
             KillVars, FlvVars>>

\* the variables the capability validation neither reads nor writes
OffCapsVars == <<RunVars, CacheVars, SessVars, ArgsVars, SizeVars, RingVars, ProgVars, CodecVars, FiltVars, AliasVars, UserKillVars, ProbeVars, MetaVars>>

InitCaps ==
  /\ RunIdle
  /\ CapsIdle
  /\ CacheIdle
  /\ SessIdle
  /\ ArgsIdle
  /\ SizeIdle
  /\ RingIdle
  /\ ProgIdle
  /\ CodecIdle
  /\ FiltIdle
  /\ AliasIdle
  /\ UserKillIdle
  /\ ProbeIdle
  /\ MetaIdle

NextCaps ==
  \/ CapAddInput /\ UNCHANGED OffCapsVars
  \/ CapInputFormat /\ UNCHANGED OffCapsVars
  \/ CapAddOutput /\ UNCHANGED OffCapsVars
  \/ CapFormat /\ UNCHANGED OffCapsVars
  \/ CapAudioCodec /\ UNCHANGED OffCapsVars
  \/ CapVideoCodec /\ UNCHANGED OffCapsVars
  \/ CapCheck /\ UNCHANGED OffCapsVars

SpecCaps == InitCaps /\ [][NextCaps]_vars

\* every value that follows arg in the list / the value that follows the
\* first arg of the list
ValuesAfter(list, arg) ==
  {list[k + 1] : k \in {i \in 1..(Len(list) - 1) : list[i] = arg}}

FirstValueAfter(list, arg) ==
  {list[k + 1] : k \in {i \in 1..(Len(list) - 1) :
                          list[i] = arg /\ \A j \in 1..(i - 1) : list[j] # arg}}

NoFormatRequested ==
  /\ \A i \in DOMAIN capInputs : capInputs[i] = <<>>
  /\ \A i \in DOMAIN capOutputs : capOutputs[i].options = <<>>

\* the outputs whose first -acodec (-vcodec) value is not available
BadAudio == {i \in DOMAIN capOutputs :
               \E c \in FirstValueAfter(capOutputs[i].audio, "-acodec") : ~AudioOk(c)}
BadVideo == {i \in DOMAIN capOutputs :
               \E c \in FirstValueAfter(capOutputs[i].video, "-vcodec") : ~VideoOk(c)}

\* the k-th output, in output order, of a set of outputs
Nth(S, k) == CHOOSE i \in S : Cardinality({j \in S : j < i}) = k - 1

EngineMap(k) ==
  CASE k = "formats"  -> "formats map"
    [] k = "codecs"   -> "codecs map"
    [] k = "encoders" -> "encoders map"
    [] k = "filters"  -> "filters map"

\* utils.which: answered from whichCache when the name was looked up before
Which(wc, name) ==
  IF wc[name] # Absent
    THEN [path |-> wc[name], wc |-> wc, searched |-> {}]
    ELSE [path |-> env.path[name],
          wc |-> [wc EXCEPT ![name] = env.path[name]], searched |-> {name}]

\* a waterfall step that keeps a path already found, else looks the name up
WhichUnless(found, wc, name) ==
  IF found.path # "" THEN found
  ELSE LET w == Which(wc, name)
       IN [path |-> w.path, wc |-> w.wc, searched |-> found.searched \cup w.searched]

EnvStep(v, wc) == [path |-> env.vars[v], wc |-> wc, searched |-> {}]

Resolved(c, key, r, cached) ==
  [path |-> r.path, cache |-> [c EXCEPT ![key] = r.path], wc |-> r.wc,
   searched |-> r.searched, cached |-> cached]

FromCache(c, wc, key) ==
  [path |-> c[key], cache |-> c, wc |-> wc, searched |-> {}, cached |-> TRUE]

\* _getFfmpegPath
GetFfmpegPath(c, wc) ==
  IF c["ffmpegPath"] # Absent THEN FromCache(c, wc, "ffmpegPath")
  ELSE Resolved(c, "ffmpegPath",
                WhichUnless(EnvStep("FFMPEG_PATH", wc), wc, "ffmpeg"), FALSE)

\* _getFfprobePath: the last step asks _getFfmpegPath and looks next to ffmpeg
GetFfprobePath(c, wc) ==
  IF c["ffprobePath"] # Absent THEN FromCache(c, wc, "ffprobePath")
  ELSE LET w == WhichUnless(EnvStep("FFPROBE_PATH", wc), wc, "ffprobe")
       IN IF w.path # "" THEN Resolved(c, "ffprobePath", w, FALSE)
          ELSE LET f == GetFfmpegPath(c, w.wc)
                   beside == IF f.path # "" /\ env.sibling THEN "/beside/ffprobe" ELSE ""
               IN [path |-> beside,
                   cache |-> [f.cache EXCEPT !["ffprobePath"] = beside],
                   wc |-> f.wc, searched |-> w.searched \cup f.searched,
                   cached |-> FALSE]

\* _getFlvtoolPath
GetFlvtoolPath(c, wc) ==
  IF c["flvtoolPath"] # Absent THEN FromCache(c, wc, "flvtoolPath")
  ELSE LET e1 == EnvStep("FLVMETA_PATH", wc)
           e2 == IF e1.path # "" THEN e1 ELSE EnvStep("FLVTOOL2_PATH", wc)
           w1 == WhichUnless(e2, wc, "flvmeta")
           w2 == WhichUnless(w1, w1.wc, "flvtool2")
       IN Resolved(c, "flvtoolPath", w2, FALSE)

GetPathOf(key, c, wc) ==
  CASE key = "ffmpegPath"  -> GetFfmpegPath(c, wc)
    [] key = "ffprobePath" -> GetFfprobePath(c, wc)
    [] key = "flvtoolPath" -> GetFlvtoolPath(c, wc)

\* a reset that forgets the capability maps as well
ForgetAll(c) == [key \in DOMAIN c |-> Absent]

\* _forgetPaths: the three delete statements
Forget(c) == [key \in DOMAIN c |-> IF key \in PathKeys THEN Absent ELSE c[key]]

\* a query callback that stores what it got even when the engine failed
CacheAlways(c, k, ok) == [c EXCEPT ![k] = EngineMap(k)]

\* the callback a query gives to _spawnFfmpeg: an error is passed on, a
\* listing is parsed and stored under the kind's key
CacheAfterQuery(c, k, ok) == IF ok THEN [c EXCEPT ![k] = EngineMap(k)] ELSE c

\* _getFfmpegPath, _getFfprobePath, _getFlvtoolPath
GetPathFor(key) ==
  LET r == GetPathOf(key, cache, whichCache)
  IN /\ cache' = r.cache
     /\ whichCache' = r.wc
     /\ lastCall' = [op |-> "resolve", key |-> key, result |-> r.path,
                     engine |-> FALSE, searched |-> r.searched]
     /\ UNCHANGED <<env, pending, engineCalls>>

GetPath == \E key \in PathKeys : GetPathFor(key)

\* setFfmpegPath, setFfprobePath, setFlvtoolPath
SetPath ==
  \E key \in PathKeys :
    /\ cache' = [cache EXCEPT ![key] = "/opt/bin"]
    /\ lastCall' = [op |-> "set", key |-> key, result |-> "/opt/bin",
                    engine |-> FALSE, searched |-> {}]
    /\ UNCHANGED <<whichCache, env, pending, engineCalls>>

\* _forgetPaths
ForgetPaths ==
  /\ cache' = Forget(cache)
  /\ lastCall' = [NoCall EXCEPT !.op = "forget"]
  /\ UNCHANGED <<whichCache, env, pending, engineCalls>>

\* getAvailableFormats / Codecs / Encoders / Filters up to the spawn: a hit
\* answers at once; a miss calls _spawnFfmpeg, which resolves the engine's
\* path and fails at once when there is none
QueryStart(k) ==
  IF cache[k] # Absent
    THEN /\ lastCall' = [op |-> "query", key |-> k, result |-> cache[k],
                         engine |-> FALSE, searched |-> {}]
         /\ UNCHANGED <<cache, whichCache, env, pending, engineCalls>>
    ELSE /\ engineCalls < MaxEngineCalls
         /\ LET r == GetFfmpegPath(cache, whichCache)
            IN /\ cache' = r.cache
               /\ whichCache' = r.wc
               /\ engineCalls' = engineCalls + 1
               /\ IF r.path = ""
                    THEN /\ lastCall' = [op |-> "query", key |-> k, result |-> "error",
                                         engine |-> TRUE, searched |-> r.searched]
                         /\ UNCHANGED pending
                    ELSE /\ lastCall' = [op |-> "spawn", key |-> k, result |-> "",
                                         engine |-> TRUE, searched |-> r.searched]
                         /\ pending' = [pending EXCEPT ![k] = @ + 1]
         /\ UNCHANGED env

\* the engine of a query exits: its callback runs
QueryFinish(k, ok) ==
  /\ pending[k] > 0
  /\ pending' = [pending EXCEPT ![k] = @ - 1]
  /\ cache' = CacheAfterQuery(cache, k, ok)
  /\ lastCall' = [op |-> "query", key |-> k,
                  result |-> IF ok THEN cache'[k] ELSE "error",
                  engine |-> TRUE, searched |-> {}]
  /\ UNCHANGED <<whichCache, env, engineCalls>>

GetAvailable == \E k \in Kinds : QueryStart(k)

EngineExit == \E k \in Kinds, ok \in BOOLEAN : QueryFinish(k, ok)

\* the variables the caches' operations neither read nor write
OffCacheVars == <<RunVars, CapsVars, SessVars, ArgsVars, SizeVars, RingVars, ProgVars, CodecVars, FiltVars, AliasVars, UserKillVars, ProbeVars, MetaVars>>

InitCache ==
  /\ RunIdle
  /\ CapsIdle
  /\ SessIdle
  /\ ArgsIdle
  /\ SizeIdle
  /\ RingIdle
  /\ ProgIdle
  /\ CodecIdle
  /\ FiltIdle
  /\ AliasIdle
  /\ UserKillIdle
  /\ ProbeIdle
  /\ MetaIdle
  /\ cache = [k \in Kinds \cup PathKeys |-> Absent]
  /\ whichCache = [n \in ExeNames |-> Absent]
  /\ env \in Environments
  /\ pending = [k \in Kinds |-> 0]
  /\ engineCalls = 0
  /\ lastCall = NoCall

NextCache ==
  \/ GetPath /\ UNCHANGED OffCacheVars
  \/ SetPath /\ UNCHANGED OffCacheVars
  \/ ForgetPaths /\ UNCHANGED OffCacheVars
  \/ GetAvailable /\ UNCHANGED OffCacheVars
  \/ EngineExit /\ UNCHANGED OffCacheVars

SpecCache == InitCache /\ [][NextCache]_vars

\* C14: for each capability kind: a map once cached never changes, and a
\* query of a cached kind returns it without invoking the engine; a query of
\* a kind that is not cached invokes the engine, and a failed one leaves the
\* kind uncached; a successful one stores and returns the engine's map; no
\* query step populates or changes another kind.
C14_CachedPerKind ==
  [][ /\ \A k \in Kinds : cache[k] # Absent => cache'[k] = cache[k]
      /\ \A k \in Kinds :
           QueryStart(k) =>
             /\ \A k2 \in Kinds \ {k} : cache'[k2] = cache[k2]
             /\ cache[k] # Absent =>
                  /\ lastCall'.result = cache[k]
                  /\ ~lastCall'.engine
                  /\ engineCalls' = engineCalls
                  /\ pending' = pending
             /\ cache[k] = Absent =>
                  /\ engineCalls' = engineCalls + 1
                  /\ cache'[k] = Absent
      /\ \A k \in Kinds, ok \in BOOLEAN :
           QueryFinish(k, ok) =>
             /\ \A k2 \in Kinds \ {k} : cache'[k2] = cache[k2]
             /\ ~ok => (cache'[k] = cache[k] /\ lastCall'.result = "error")
             /\ ok => (cache'[k] = EngineMap(k) /\ lastCall'.result = EngineMap(k))
    ]_vars

\* a query answered from the cache after two engine invocations of which only
\* one kind's map resulted, the other kinds still being uncached
C14_Witness ==
  /\ lastCall.op = "query"
  /\ ~lastCall.engine
  /\ lastCall.result = EngineMap(lastCall.key)
  /\ engineCalls = 2
  /\ \A k \in Kinds : pending[k] = 0
  /\ Cardinality({k \in Kinds : cache[k] # Absent}) = 1

\* C15 as stated: after the reset both the executable paths and the
\* capability maps are gone from the cache.
C15_ResetEmptiesBoth ==
  [][ ForgetPaths => \A key \in Kinds \cup PathKeys : cache'[key] = Absent ]_vars

\* C15 as amended: the reset removes the three executable paths only and
\* leaves the capability maps and the PATH lookup cache as they were; the
\* next resolution of a path runs again and stores its result, looking up on
\* the PATH only names that were never looked up; a query of a cached kind
\* still does not invoke the engine.
C15_ResetForgetsPathsOnly ==
  [][ /\ ForgetPaths =>
           /\ \A key \in PathKeys : cache'[key] = Absent
           /\ \A k \in Kinds : cache'[k] = cache[k]
           /\ whichCache' = whichCache
      /\ \A key \in PathKeys :
           (GetPathFor(key) /\ cache[key] = Absent) =>
             /\ cache'[key] = lastCall'.result
             /\ cache'[key] # Absent
             /\ lastCall'.searched \subseteq {n \in ExeNames : whichCache[n] = Absent}
      /\ \A k \in Kinds :
           (QueryStart(k) /\ cache[k] # Absent) => engineCalls' = engineCalls
    ]_vars

\* the reset has just been called with a capability map and a PATH lookup
\* cached: both are still there
C15_Witness ==
  /\ lastCall.op = "forget"
  /\ \E k \in Kinds : cache[k] # Absent
  /\ \E n \in ExeNames : whichCache[n] # Absent
  /\ \A key \in PathKeys : cache[key] = Absent

(***************************************************************************)
(* Sessions and clone() (src/src/fluent-ffmpeg.ts).  A session refers to   *)
(* its argument lists, flags, size data and options object by reference:   *)
(* the heap maps a reference to the content, a token sequence.  Reference  *)
(* 0 is a property that is not set.                                        *)
(***************************************************************************)
OutputKeys == <<"audio", "audioFilters", "video", "videoFilters",
                "sizeFilters", "options">>

KeyAt(key) == CHOOSE i \in DOMAIN OutputKeys : OutputKeys[i] = key

Threw(msg, h, s) == [threw |-> msg, heap |-> h, sess |-> s]

Done(h, s) == [threw |-> "", heap |-> h, sess |-> s]

\* self._currentOutput
CurOut(s) == s.outputs[Len(s.outputs)]

\* output(target); target "none" is the call without a target, "unwritable"
\* an object that is no writable stream
Output(h, s, target) ==
  IF target = "none" /\ s.hasCurrentOutput
    THEN Threw("Invalid output", h, s)
  ELSE IF target = "unwritable"
    THEN Threw("Invalid output", h, s)
  ELSE IF target # "none" /\ CurOut(s).target = "none"
    THEN Done(h, [s EXCEPT !.outputs[Len(s.outputs)].target = target])
  ELSE IF target = "stream" /\ \E i \in DOMAIN s.outputs : s.outputs[i].target # "file"
    THEN Threw("Only one output stream is supported", h, s)
  ELSE LET base == Len(h)
           o == [target |-> target, flags |-> base + 1,
                 lists |-> [k \in {OutputKeys[i] : i \in DOMAIN OutputKeys} |->
                              base + 1 + KeyAt(k)],
                 sizeData |-> 0]
       IN Done(h \o [i \in 1..7 |-> <<>>],
               [s EXCEPT !.outputs = Append(@, o), !.hasCurrentOutput = TRUE])

\* new FfmpegCommand(): the two list fields, the options object, no input
\* and the target-less output
Construct(h) ==
  Output(h \o <<<<>>, <<>>, <<"niceness", "0">>>>,
         [inputs |-> <<>>, currentInput |-> 0, outputs |-> <<>>,
          hasCurrentOutput |-> FALSE, global |-> Len(h) + 1,
          complexFilters |-> Len(h) + 2, options |-> Len(h) + 3],
         "none")

\* input(source) = mergeAdd(source), with a file name, a readable stream or
\* ("unreadable") an object that is no readable stream
Input(h, s, source) ==
  IF source = "unreadable"
    THEN Threw("Invalid input", h, s)
  ELSE IF source = "stream" /\ \E i \in DOMAIN s.inputs : s.inputs[i].isStream = "true"
    THEN Threw("Only one input stream is supported", h, s)
    ELSE Done(Append(h, <<>>),
              [s EXCEPT !.inputs = Append(@, [source |-> source,
                                              isStream |-> IF source = "stream"
                                                             THEN "true" ELSE "false",
                                              options |-> Len(h) + 1]),
                        !.currentInput = Len(s.inputs) + 1])

\* nativeFramerate(): one of the input-scoped methods
NativeFramerate(h, s) ==
  IF s.currentInput = 0
    THEN Threw("No input specified", h, s)
    ELSE Done([h EXCEPT ![s.inputs[s.currentInput].options] = Append(@, "-re")], s)

\* audioCodec("aac")
AudioCodec(h, s) ==
  Done([h EXCEPT ![CurOut(s).lists["audio"]] = @ \o <<"-acodec", "aac">>], s)

\* format("mp4")
Format(h, s) ==
  Done([h EXCEPT ![CurOut(s).lists["options"]] = @ \o <<"-f", "mp4">>], s)

\* complexFilter(spec): clears the list and stores the filter graph
ComplexFilter(h, s) ==
  Done([h EXCEPT ![s.complexFilters] = <<"-filter_complex", "graph">>], s)

\* size("320x240"): createSizeFilters stores the size in the output's
\* sizeData, creating it when missing, and the size filters are replaced
Size(h, s, size) ==
  LET o == CurOut(s)
      \* createSizeFilters: the parameter is stored, then parsed
      stored == IF o.sizeData = 0
                  THEN [heap |-> Append(h, <<"size", size>>),
                        sess |-> [s EXCEPT !.outputs[Len(s.outputs)].sizeData =
                                             Len(h) + 1]]
                  ELSE [heap |-> [h EXCEPT ![o.sizeData] = <<"size", size>>],
                        sess |-> s]
  IN IF size # "320x240"
       THEN Threw("Invalid size specified", stored.heap, stored.sess)
       ELSE Done([stored.heap EXCEPT ![o.lists["sizeFilters"]] = <<"scale=w=320:h=240">>],
                 stored.sess)

\* flvmeta()
Flvmeta(h, s) == Done([h EXCEPT ![CurOut(s).flags] = <<"flvmeta">>], s)

\* renice(5), not on Windows
Renice(h, s) == Done([h EXCEPT ![s.options] = <<"niceness", "5">>], s)

\* a clone that keeps the original's list instead of the copy made for it
CloneRefShared(old, new) == old

\* args.clone(): the clone refers to the new list
CloneRef(old, new) == new

\* clone()
Clone(h, s) ==
  LET c0 == Construct(h)
      h1 == c0.heap
      n  == Len(s.inputs)
      h2 == h1 \o [i \in 1..n |-> h[s.inputs[i].options]]
      c1 == [c0.sess EXCEPT
               !.options = s.options,
               !.inputs = [i \in 1..n |->
                             [source |-> s.inputs[i].source,
                              isStream |-> "undefined",
                              options |-> CloneRef(s.inputs[i].options, Len(h1) + i)]]]
      \* the target-less first output is copied
      o  == CurOut(s)
      b  == Len(h2)
      h3 == h2 \o <<h[o.flags]>> \o [i \in 1..6 |-> h[o.lists[OutputKeys[i]]]]
      h4 == IF o.sizeData # 0 THEN Append(h3, h[o.sizeData]) ELSE h3
      co == [target |-> "none", flags |-> b + 1,
             lists |-> [k \in {OutputKeys[i] : i \in DOMAIN OutputKeys} |->
                          CloneRef(o.lists[k], b + 1 + KeyAt(k))],
             sizeData |-> IF o.sizeData # 0 THEN b + 8 ELSE 0]
      \* or a first output is created anew
      r  == IF s.outputs[1].target # "none"
              THEN Output(h2, [c1 EXCEPT !.outputs = <<>>], "none")
              ELSE Done(h4, [c1 EXCEPT !.outputs = <<co>>])
      g  == Len(r.heap)
  IN IF r.threw # "" THEN Threw(r.threw, h, s)
     ELSE Done(r.heap \o <<h[s.global], h[s.complexFilters]>>,
               [r.sess EXCEPT !.global = CloneRef(s.global, g + 1),
                              !.complexFilters = CloneRef(s.complexFilters, g + 2)])

\* a method call on session i that returned r
Called(op, i, r) ==
  /\ sessCalls < MaxSessCalls
  /\ sessCalls' = sessCalls + 1
  /\ lastOp' = [op |-> op, sess |-> i, threw |-> r.threw]
  /\ sessions' = [sessions EXCEPT ![i] = r.sess]
  /\ heap' = r.heap

\* what input() is given: a file name, a readable stream, an object that is
\* not readable
Sources == {"file", "stream", "unreadable"}

\* what output() is given: a file name, a writable stream, nothing, an object
\* that is not writable
Targets == {"file", "stream", "none", "unwritable"}

\* what size() is given: a size and a string that is none
SizesGiven == {"320x240", "big"}

SessInput ==
  \E i \in DOMAIN sessions, source \in Sources :
    Called("input", i, Input(heap, sessions[i], source))

SessOutput ==
  \E i \in DOMAIN sessions, target \in Targets :
    Called("output", i, Output(heap, sessions[i], target))

SessNativeFramerate ==
  \E i \in DOMAIN sessions :
    Called("nativeFramerate", i, NativeFramerate(heap, sessions[i]))

SessAudioCodec ==
  \E i \in DOMAIN sessions : Called("audioCodec", i, AudioCodec(heap, sessions[i]))

SessFormat ==
  \E i \in DOMAIN sessions : Called("format", i, Format(heap, sessions[i]))

SessComplexFilter ==
  \E i \in DOMAIN sessions :
    Called("complexFilter", i, ComplexFilter(heap, sessions[i]))

SessSize ==
  \E i \in DOMAIN sessions, size \in SizesGiven :
    Called("size", i, Size(heap, sessions[i], size))

SessFlvmeta ==
  \E i \in DOMAIN sessions : Called("flvmeta", i, Flvmeta(heap, sessions[i]))

SessRenice ==
  \E i \in DOMAIN sessions : Called("renice", i, Renice(heap, sessions[i]))

\* clone() on session i: the clone, when one is returned, is a new session
SessClone ==
  \E i \in DOMAIN sessions :
    LET r == Clone(heap, sessions[i])
    IN /\ sessCalls < MaxSessCalls
       /\ Len(sessions) < MaxSessions
       /\ sessCalls' = sessCalls + 1
       /\ lastOp' = [op |-> "clone", sess |-> i, threw |-> r.threw]
       /\ sessions' = IF r.threw = "" THEN Append(sessions, r.sess) ELSE sessions
       /\ heap' = IF r.threw = "" THEN r.heap ELSE heap

\* the variables the session methods neither read nor write
OffSessVars == <<RunVars, CapsVars, CacheVars, ArgsVars, SizeVars, RingVars, ProgVars, CodecVars, FiltVars, AliasVars, UserKillVars, ProbeVars, MetaVars>>

InitSess ==
  /\ RunIdle
  /\ CapsIdle
  /\ CacheIdle
  /\ ArgsIdle
  /\ SizeIdle
  /\ RingIdle
  /\ ProgIdle
  /\ CodecIdle
  /\ FiltIdle
  /\ AliasIdle
  /\ UserKillIdle
  /\ ProbeIdle
  /\ MetaIdle
  /\ sessions = <<Construct(<<>>).sess>>
  /\ heap = Construct(<<>>).heap
  /\ sessCalls = 0
  /\ lastOp = NoOp

NextSess ==
  \/ SessInput /\ UNCHANGED OffSessVars
  \/ SessOutput /\ UNCHANGED OffSessVars
  \/ SessNativeFramerate /\ UNCHANGED OffSessVars
  \/ SessAudioCodec /\ UNCHANGED OffSessVars
  \/ SessFormat /\ UNCHANGED OffSessVars
  \/ SessComplexFilter /\ UNCHANGED OffSessVars
  \/ SessSize /\ UNCHANGED OffSessVars
  \/ SessFlvmeta /\ UNCHANGED OffSessVars
  \/ SessRenice /\ UNCHANGED OffSessVars
  \/ SessClone /\ UNCHANGED OffSessVars

SpecSess == InitSess /\ [][NextSess]_vars

StreamInputs(s)  == {k \in DOMAIN s.inputs : s.inputs[k].source = "stream"}
StreamOutputs(s) == {k \in DOMAIN s.outputs : s.outputs[k].target = "stream"}

\* what a session holds, by content: inputs and outputs with their argument
\* lists, flags and size data, the global and the complex-filter list
View(h, s) ==
  [inputs |-> [k \in DOMAIN s.inputs |->
                 [source |-> s.inputs[k].source, options |-> h[s.inputs[k].options]]],
   outputs |-> [k \in DOMAIN s.outputs |->
                  [target |-> s.outputs[k].target,
                   flags |-> h[s.outputs[k].flags],
                   lists |-> [key \in DOMAIN s.outputs[k].lists |->
                                h[s.outputs[k].lists[key]]],
                   sizeData |-> IF s.outputs[k].sizeData = 0 THEN <<>>
                                ELSE h[s.outputs[k].sizeData]]],
   global |-> h[s.global],
   complexFilters |-> h[s.complexFilters]]

\* C16: in every session reachable by constructor, input(), output() and
\* clone() calls at most one input has a stream source and at most one output
\* has a stream target.
C16_OneStream ==
  \A i \in DOMAIN sessions :
    /\ Cardinality(StreamInputs(sessions[i])) <= 1
    /\ Cardinality(StreamOutputs(sessions[i])) <= 1

\* C17: a session that has an input, a clone included, has its most recently
\* added input as the current one, and an input-scoped method called on it
\* does not throw.
C17_CurrentIsLast ==
  /\ \A i \in DOMAIN sessions :
       sessions[i].inputs # <<>> =>
         sessions[i].currentInput = Len(sessions[i].inputs)
  /\ (lastOp.op = "nativeFramerate" /\ sessions[lastOp.sess].inputs # <<>>)
       => lastOp.threw = ""

\* C18: a method call on one session leaves what every other session holds
\* unchanged: the original is not affected by calls on its clone, nor the
\* clone by calls on the original.
C18_CloneIndependent ==
  [][ \A j \in DOMAIN sessions :
        j # lastOp'.sess => View(heap', sessions'[j]) = View(heap, sessions[j]) ]_vars

\* the clone took over the original's audio codec and then got one more, and
\* its size was set: the original still has the one codec and no size
C18_Witness ==
  /\ Len(sessions) = 2
  /\ Len(heap[sessions[1].outputs[1].lists["audio"]]) = 2
  /\ Len(heap[sessions[2].outputs[1].lists["audio"]]) = 4
  /\ sessions[1].outputs[1].sizeData = 0
  /\ sessions[2].outputs[1].sizeData # 0

\* C19: renice() on one instance does not change the options of another.
C19_OptionsNotShared ==
  [][ lastOp'.op = "renice" =>
        \A j \in DOMAIN sessions :
          j # lastOp'.sess =>
            heap'[sessions'[j].options] = heap[sessions[j].options] ]_vars

\* C20: clone() on a session whose first output has a target does not throw
\* and returns a session with the same inputs, global and complex-filter
\* arguments and a single target-less output.
C20_CloneWithTarget ==
  (lastOp.op = "clone" /\ sessions[lastOp.sess].outputs[1].target # "none") =>
    /\ lastOp.threw = ""
    /\ LET o == View(heap, sessions[lastOp.sess])
           c == View(heap, sessions[Len(sessions)])
       IN /\ Len(sessions) > lastOp.sess
          /\ c.inputs = o.inputs
          /\ c.global = o.global
          /\ c.complexFilters = o.complexFilters
          /\ Len(c.outputs) = 1
          /\ c.outputs[1].target = "none"

(***************************************************************************)
(* Argument assembly (src/src/processor.ts, _getArguments): a session is   *)
(* configured by input, output, option and filter calls and its argument   *)
(* vector is assembled.                                                    *)
(***************************************************************************)
\* targets output() is given: a path, a file: URL, another URL, a stream
ArgTargets ==
  { [kind |-> "string", text |-> <<"out.mp4">>],
    [kind |-> "string", text |-> <<"file", ":", "out.mp4">>],
    [kind |-> "string", text |-> <<"rtmp", ":", "//host/live">>],
    [kind |-> "stream", text |-> <<>>] }

\* target.match(/^([a-z]{2,}):/i): element 0 of the match, or <<>> for null
ProtocolMatch(text) ==
  IF Len(text) >= 2 /\ text[2] = ":" THEN <<text[1], ":">> ELSE <<>>

\* output(): isFile = !protocol || protocol[0] === "file"
IsFile(target) ==
  /\ target.kind = "string"
  /\ (ProtocolMatch(target.text) = <<>> \/ ProtocolMatch(target.text) = <<"file">>)

RECURSIVE Join(_, _)
\* Array.prototype.join
Join(parts, sep) ==
  IF parts = <<>> THEN <<>>
  ELSE IF Len(parts) = 1 THEN parts[1]
  ELSE parts[1] \o <<sep>> \o Join(Tail(parts), sep)

RECURSIVE Flatten(_)
\* [].concat over a sequence of argument lists
Flatten(lists) ==
  IF lists = <<>> THEN <<>> ELSE Head(lists) \o Flatten(Tail(lists))

\* streamSpec.replace(streamRegexp, "[$1]"): one pair of brackets around the
\* specifier, whether or not it had them
WrapStream(t) ==
  LET a == IF t # <<>> /\ Head(t) = "[" THEN Tail(t) ELSE t
      b == IF a # <<>> /\ a[Len(a)] = "]" THEN SubSeq(a, 1, Len(a) - 1) ELSE a
  IN <<"[">> \o b \o <<"]">>

\* a filter given as a string
FilterText(text) == [kind |-> "string", text |-> text]

\* a number and a string, as an option or an option's value
Num(n) == [kind |-> "number", n |-> n]

Txt(text) == [kind |-> "string", text |-> text]

\* what a filter object's inputs, outputs and options can be: left out, one
\* string or number, an array, an object of named options
Omitted == [kind |-> "none"]

ArrayOf(items) == [kind |-> "array", items |-> items]

ObjectOf(items) == [kind |-> "object", items |-> items]

\* a filter given as an object
FilterSpec(ins, filter, opts, outs) ==
  [kind |-> "object", inputs |-> ins, filter |-> filter,
   options |-> opts, outputs |-> outs]

\* a filter given as an object with arrays of stream specifiers and named
\* options
FilterObject(ins, filter, opts, outs) ==
  FilterSpec(ArrayOf(ins), filter, ObjectOf(opts), ArrayOf(outs))

\* String(value)
ScalarText(v) == IF v.kind = "number" THEN <<ToString(v.n)>> ELSE v.text

\* if (value): 0 and "" are not
Truthy(v) == IF v.kind = "number" THEN v.n # 0 ELSE v.text # <<>>

\* typeof value === "string" && value.match(filterEscapeRegexp): the value
\* between single quotes when it is a string holding a comma
Escape(v) ==
  IF v.kind = "string" /\ \E i \in DOMAIN v.text : v.text[i] = ","
    THEN <<"'">> \o v.text \o <<"'">>
    ELSE ScalarText(v)

\* makeFilterStrings, "Add inputs" and "Add outputs": every specifier of an
\* array, or the one string, between brackets
StreamLabels(streams) ==
  CASE streams.kind = "array" ->
         Flatten([i \in DOMAIN streams.items |-> WrapStream(streams.items[i])])
    [] streams.kind = "string" -> WrapStream(streams.text)
    [] OTHER -> <<>>

\* makeFilterStrings, "Add options"
OptionsText(options) ==
  CASE options.kind = "none" -> <<>>
    [] options.kind \in {"string", "number"} ->
         IF Truthy(options) THEN <<"=">> \o ScalarText(options) ELSE <<>>
    [] options.kind = "array" ->
         <<"=">> \o Join([i \in DOMAIN options.items |-> Escape(options.items[i])], ":")
    [] options.kind = "object" ->
         IF options.items = <<>> THEN <<>>
         ELSE <<"=">> \o
              Join([i \in DOMAIN options.items |->
                      <<options.items[i][1], "=">> \o Escape(options.items[i][2])], ":")

\* makeFilterStrings for one filter: a string as it is; an object as its
\* bracketed inputs, the filter name, its options, and its bracketed outputs
MakeFilterString(spec) ==
  IF spec.kind = "string" THEN spec.text
  ELSE StreamLabels(spec.inputs) \o <<spec.filter>> \o
       OptionsText(spec.options) \o StreamLabels(spec.outputs)

\* makeFilterStrings
MakeFilterStrings(filters) == [i \in DOMAIN filters |-> MakeFilterString(filters[i])]

\* _getArguments: the reduce over the inputs
InputArgs(ins) ==
  Flatten([i \in DOMAIN ins |->
             ins[i].options \o
             <<Str("-i"), IF ins[i].source.kind = "string" THEN ins[i].source.text
                          ELSE Str("pipe:0")>>])

\* _getArguments: one step of the reduce over the outputs
OutputArgsOf(o) ==
  LET sizeStrings  == MakeFilterStrings(o.sizeFilters)
      videoFilters == o.videoFilters \o sizeStrings
      outputArg == IF o.target.kind = "none" THEN <<>>
                   ELSE IF o.target.kind = "string" THEN <<o.target.text>>
                   ELSE <<Str("pipe:1")>>
  IN o.audio \o
     (IF o.audioFilters # <<>>
        THEN <<Str("-filter:a"), Join(o.audioFilters, ",")>> ELSE <<>>) \o
     o.video \o
     (IF videoFilters # <<>>
        THEN <<Str("-filter:v"), Join(videoFilters, ",")>> ELSE <<>>) \o
     o.options \o
     outputArg

\* _getArguments
GetArguments(s) ==
  InputArgs(s.inputs) \o s.global \o
  (IF \E i \in DOMAIN s.outputs : s.outputs[i].isFile THEN <<Str("-y")>> ELSE <<>>) \o
  s.complexFilters \o
  Flatten([i \in DOMAIN s.outputs |-> OutputArgsOf(s.outputs[i])])

ArgConfigurable == ~argResult.done /\ argCalls < MaxArgCalls

ArgLast == Len(argSess.outputs)

\* a configuration call that returned session s
ArgCalled(s) ==
  /\ ArgConfigurable
  /\ argSess' = s
  /\ argCalls' = argCalls + 1
  /\ UNCHANGED argResult

\* input(source): a file name or a readable stream
ArgInput ==
  \E kind \in {"string", "stream"} :
    /\ kind = "stream" => \A i \in DOMAIN argSess.inputs :
                            argSess.inputs[i].source.kind # "stream"
    /\ ArgCalled([argSess EXCEPT !.inputs =
         Append(@, [source |-> [kind |-> kind,
                                text |-> IF kind = "string" THEN <<"in.avi">> ELSE <<>>],
                    options |-> <<>>])])

\* nativeFramerate() on the current input
ArgNativeFramerate ==
  /\ argSess.inputs # <<>>
  /\ ArgCalled([argSess EXCEPT !.inputs[Len(argSess.inputs)].options =
                  Append(@, Str("-re"))])

\* output(target): fills the target-less output or adds an output; a second
\* stream throws
ArgOutput ==
  \E target \in ArgTargets :
    IF argSess.outputs[ArgLast].target.kind = "none"
      THEN ArgCalled([argSess EXCEPT !.outputs[ArgLast].target = target,
                                     !.outputs[ArgLast].isFile = IsFile(target)])
      ELSE /\ target.kind = "stream" =>
                \A i \in DOMAIN argSess.outputs : argSess.outputs[i].target.kind = "string"
           /\ ArgCalled([argSess EXCEPT !.outputs =
                           Append(@, ArgOutputRec(target, IsFile(target)))])

\* audioCodec("aac"), audioCodec("copy")
ArgAudioCodec ==
  \E codec \in {"aac", "copy"} :
    ArgCalled([argSess EXCEPT !.outputs[ArgLast].audio =
                 @ \o <<Str("-acodec"), Str(codec)>>])

\* videoCodec("libx264")
ArgVideoCodec ==
  ArgCalled([argSess EXCEPT !.outputs[ArgLast].video =
               @ \o <<Str("-vcodec"), Str("libx264")>>])

\* format("mp4")
ArgFormat ==
  ArgCalled([argSess EXCEPT !.outputs[ArgLast].options =
               @ \o <<Str("-f"), Str("mp4")>>])

\* what audioFilters("volume=2") appends. The handler is an arrow function
\* that reads `arguments`, which is not its own: compiled to a function
\* expression it sees the one filter; kept as an arrow in a CommonJS module it
\* sees the five arguments of the module wrapper (three objects, which
\* makeFilterStrings turns into "undefined", and two path strings); in an
\* ECMAScript module the read throws.
AudioFiltersGiven ==
  [own     |-> <<<<"volume", "=", "2">>>>,
   wrapper |-> <<Str("undefined"), Str("undefined"), Str("undefined"),
                 Str("audio.js"), Str("options")>>,
   throws  |-> <<>>]

\* audioFilters("volume=2")
ArgAudioFilter ==
  \E build \in DOMAIN AudioFiltersGiven :
    ArgCalled([argSess EXCEPT !.outputs[ArgLast].audioFilters =
                 @ \o AudioFiltersGiven[build]])

\* videoFilters("hflip")
ArgVideoFilter ==
  ArgCalled([argSess EXCEPT !.outputs[ArgLast].videoFilters =
               Append(@, Str("hflip"))])

\* size("320x240"): the size filters become the one scale filter
ArgSize ==
  ArgCalled([argSess EXCEPT !.outputs[ArgLast].sizeFilters =
               <<FilterObject(<<>>, "scale",
                              <<<<"w", Num(320)>>, <<"h", Num(240)>>>>, <<>>)>>])

\* filter graphs complexFilter() is given: one filter string, or an array of
\* a filter object and a filter string
GraphSpecs ==
  { [isArray |-> FALSE,
     filters |-> <<FilterText(<<"[0:v]hflip[out]">>)>>],
    [isArray |-> TRUE,
     filters |-> <<FilterObject(<<Str("0:v")>>, "scale", <<<<"w", Num(640)>>>>, <<Str("a")>>),
                   FilterText(<<"[a]vflip[b]">>)>>] }

\* stream maps complexFilter() is given: none, one specifier, an array
GraphMaps ==
  { [kind |-> "none", streams |-> <<>>],
    [kind |-> "string", streams |-> <<Str("out")>>],
    [kind |-> "array", streams |-> <<Str("a"), <<"[", "b", "]">>>>] }

\* what complexFilter appends: -filter_complex and the joined graph, then
\* -map and the bracketed specifier for each mapped stream
ComplexFilterArgs(spec, map) ==
  <<Str("-filter_complex"), Join(MakeFilterStrings(spec.filters), ";")>> \o
  Flatten([i \in DOMAIN map.streams |-> <<Str("-map"), WrapStream(map.streams[i])>>])

\* a complexFilter that keeps what earlier calls appended
AppendComplexFilters(old, spec, map) == old \o ComplexFilterArgs(spec, map)

\* complexFilter(spec, map) on the list old: clear, then append
SetComplexFilters(old, spec, map) == <<>> \o ComplexFilterArgs(spec, map)

\* complexFilter(spec, map)
ArgComplexFilterWith(spec, map) ==
  ArgCalled([argSess EXCEPT !.complexFilters = SetComplexFilters(@, spec, map)])

ArgComplexFilter ==
  \E spec \in GraphSpecs, map \in GraphMaps : ArgComplexFilterWith(spec, map)

\* _getArguments()
ArgGet ==
  /\ ~argResult.done
  /\ argResult' = [argResult EXCEPT !.done = TRUE, !.args = GetArguments(argSess)]
  /\ UNCHANGED <<argSess, argCalls>>

\* args[i] in encoders && encoders[args[i]].experimental
IsExperimental(arg, encoders) ==
  \E c \in DOMAIN encoders : arg = Str(c) /\ encoders[c].experimental

\* a patch that adds nothing
AddStrictNowhere(args, i, encoders) == args

RECURSIVE AddStrict(_, _, _)
\* _prepare, the loop of its last step from index i on: after -acodec or
\* -vcodec the next argument is looked up, and "-strict", "experimental" are
\* spliced in behind an experimental encoder
AddStrict(args, i, encoders) ==
  IF i > Len(args) THEN args
  ELSE IF args[i] \in {Str("-acodec"), Str("-vcodec")} THEN
    IF i + 1 <= Len(args) /\ IsExperimental(args[i + 1], encoders)
      THEN AddStrict(SubSeq(args, 1, i + 1) \o <<Str("-strict"), Str("experimental")>> \o
                     SubSeq(args, i + 2, Len(args)),
                     i + 4, encoders)
      ELSE AddStrict(args, i + 2, encoders)
  ELSE AddStrict(args, i + 1, encoders)

\* _prepare, last step of the waterfall, on the list _getArguments returned
ArgStrict ==
  /\ argResult.done
  /\ ~argResult.patched
  /\ argResult' = [argResult EXCEPT !.patched = TRUE,
                                    !.final = AddStrict(argResult.args, 1, AvailableEncoders)]
  /\ UNCHANGED <<argSess, argCalls>>

\* the variables the argument assembly neither reads nor writes
OffArgsVars == <<RunVars, CapsVars, CacheVars, SessVars, SizeVars, RingVars, ProgVars, CodecVars, FiltVars, AliasVars, UserKillVars, ProbeVars, MetaVars>>

InitArgs ==
  /\ RunIdle
  /\ CapsIdle
  /\ CacheIdle
  /\ SessIdle
  /\ ArgsIdle
  /\ SizeIdle
  /\ RingIdle
  /\ ProgIdle
  /\ CodecIdle
  /\ FiltIdle
  /\ AliasIdle
  /\ UserKillIdle
  /\ ProbeIdle
  /\ MetaIdle

NextArgs ==
  \/ ArgInput /\ UNCHANGED OffArgsVars
  \/ ArgNativeFramerate /\ UNCHANGED OffArgsVars
  \/ ArgOutput /\ UNCHANGED OffArgsVars
  \/ ArgAudioCodec /\ UNCHANGED OffArgsVars
  \/ ArgVideoCodec /\ UNCHANGED OffArgsVars
  \/ ArgFormat /\ UNCHANGED OffArgsVars
  \/ ArgAudioFilter /\ UNCHANGED OffArgsVars
  \/ ArgVideoFilter /\ UNCHANGED OffArgsVars
  \/ ArgSize /\ UNCHANGED OffArgsVars
  \/ ArgComplexFilter /\ UNCHANGED OffArgsVars
  \/ ArgGet /\ UNCHANGED OffArgsVars
  \/ ArgStrict /\ UNCHANGED OffArgsVars

SpecArgs == InitArgs /\ [][NextArgs]_vars

\* the target names a file: a string with no protocol or the file protocol
TargetsFile(target) ==
  /\ target.kind = "string"
  /\ (Len(target.text) < 2 \/ target.text[2] # ":" \/ target.text[1] = "file")

\* the part of the vector that the description gives for one output
DescribedOutput(o) ==
  o.audio \o
  (IF o.audioFilters = <<>> THEN <<>>
   ELSE <<Str("-filter:a"), Join(o.audioFilters, ",")>>) \o
  o.video \o
  (IF o.videoFilters = <<>> /\ o.sizeFilters = <<>> THEN <<>>
   ELSE <<Str("-filter:v"),
          Join(o.videoFilters \o
               [i \in DOMAIN o.sizeFilters |-> MakeFilterString(o.sizeFilters[i])], ",")>>) \o
  o.options \o
  (CASE o.target.kind = "string" -> <<o.target.text>>
     [] o.target.kind = "stream" -> <<Str("pipe:1")>>
     [] o.target.kind = "none"   -> <<>>)

\* the vector the description gives, with the overwrite flag as given
Described(s, overwrite) ==
  Flatten([i \in DOMAIN s.inputs |->
             s.inputs[i].options \o
             <<Str("-i"), IF s.inputs[i].source.kind = "stream" THEN Str("pipe:0")
                          ELSE s.inputs[i].source.text>>]) \o
  s.global \o
  (IF overwrite THEN <<Str("-y")>> ELSE <<>>) \o
  s.complexFilters \o
  Flatten([i \in DOMAIN s.outputs |-> DescribedOutput(s.outputs[i])])

\* C21: the assembled vector is, in order: each input's options, -i and its
\* source; the global options; -y iff at least one output targets a file; the
\* complex-filter arguments; and for each output its audio options, -filter:a,
\* its video options, -filter:v, its generic options and its target.
C21_ArgumentVector ==
  argResult.done =>
    argResult.args =
      Described(argSess, \E i \in DOMAIN argSess.outputs :
                           TargetsFile(argSess.outputs[i].target))

\* the complex-filter arguments the description gives for one call on a new
\* session
DescribedGraph(spec, map) ==
  <<Str("-filter_complex"),
    Join([i \in DOMAIN spec.filters |-> MakeFilterString(spec.filters[i])], ";")>> \o
  (CASE map.kind = "none"   -> <<>>
     [] map.kind = "string" -> <<Str("-map"), WrapStream(map.streams[1])>>
     [] map.kind = "array"  ->
          Flatten([i \in DOMAIN map.streams |->
                     <<Str("-map"), WrapStream(map.streams[i])>>]))

\* C22: complexFilter() replaces rather than appends: after every call, whatever
\* earlier calls left, the complex-filter arguments are what that call alone
\* produces on a new session: -filter_complex, the ';'-joined graph, then one
\* -map per mapped stream.
C22_ComplexFilterReplaces ==
  [][\A spec \in GraphSpecs, map \in GraphMaps :
       ArgComplexFilterWith(spec, map) =>
         /\ argSess'.complexFilters = DescribedGraph(spec, map)
         /\ argSess'.complexFilters =
              SetComplexFilters(ArgNewSession.complexFilters, spec, map)]_vars

\* two complexFilter calls, and nothing else, have been made on the session
C22_Witness ==
  /\ argCalls = 2
  /\ argSess.complexFilters # <<>>
  /\ [argSess EXCEPT !.complexFilters = <<>>] = ArgNewSession

(***************************************************************************)
(* Output size (src/unnamed/part_002): size(), aspect() and autopad() keep *)
(* the requested values in the output's sizeData and recompute its         *)
(* size-filter list.                                                       *)
(***************************************************************************)
\* the numerals that occur in the strings given, with Number() of each
Numerals == {"2", "3", "50", "320", "480", "639", "641"}

Number(t) ==
  CASE t = "2" -> 2 [] t = "3" -> 3 [] t = "50" -> 50 [] t = "320" -> 320
    [] t = "480" -> 480 [] t = "639" -> 639 [] t = "641" -> 641

\* sizes size() is given: WxH, Wx?, ?xH, a percentage, no size at all
SizeTexts ==
  { <<"639", "x", "320">>, <<"641", "x", "?">>, <<"?", "x", "480">>,
    <<"50", "%">>, <<"big">> }

\* aspects aspect() is given: a number, two ratios, no aspect at all
AspectTexts == { <<"2">>, <<"3", ":", "2">>, <<"wide">> }

\* the first place in t where a piece of A, one of B and one of C follow one
\* another, 0 if there is none
FirstMatch3(t, A, B, C) ==
  LET at == {i \in 1..(Len(t) - 2) : t[i] \in A /\ t[i + 1] \in B /\ t[i + 2] \in C}
  IN IF at = {} THEN 0 ELSE CHOOSE i \in at : \A j \in at : i <= j

\* data.size.match(/([0-9]+)x([0-9]+)/)
FixedSize(t) ==
  LET i == FirstMatch3(t, Numerals, {"x"}, Numerals)
  IN IF i = 0 THEN <<>> ELSE <<t[i], t[i + 2]>>

\* data.size.match(/([0-9]+)x\?/)
FixedWidth(t) ==
  LET i == FirstMatch3(t, Numerals, {"x"}, {"?"})
  IN IF i = 0 THEN <<>> ELSE <<t[i]>>

\* data.size.match(/\?x([0-9]+)/)
FixedHeight(t) ==
  LET i == FirstMatch3(t, {"?"}, {"x"}, Numerals)
  IN IF i = 0 THEN <<>> ELSE <<t[i + 2]>>

\* data.size.match(/\b([0-9]{1,3})%/)
PercentRatio(t) ==
  LET at == {i \in 1..(Len(t) - 1) : t[i] \in Numerals /\ t[i + 1] = "%"}
  IN IF at = {} THEN <<>> ELSE <<t[CHOOSE i \in at : \A j \in at : i <= j]>>

RECURSIVE Gcd(_, _)
Gcd(a, b) == IF b = 0 THEN a ELSE Gcd(b, a % b)

\* the number n/d in lowest terms
Ratio(n, d) == [n |-> n \div Gcd(n, d), d |-> d \div Gcd(n, d)]

\* a number as string concatenation writes it: an integer, a half, or else
\* its fraction standing for the decimal expansion
NumberText(r) ==
  IF r.d = 1 THEN ToString(r.n)
  ELSE IF r.d = 2 THEN ToString(r.n \div 2) \o ".5"
  ELSE ToString(r.n) \o "/" \o ToString(r.d)

\* Math.round(a / b) for a >= 0, b > 0
RoundDiv(a, b) == (2 * a + b) \div (2 * b)

\* Math.round(n / 2) * 2
RoundToEven(n) == RoundDiv(n, 2) * 2

\* a filter object with named options
SizeFilter(filter, opts) == FilterObject(<<>>, filter, opts, <<>>)

\* getScalePadFilters
GetScalePadFilters(width, height, aspect, color) ==
  LET w == ToString(width)
      h == ToString(height)
      a == NumberText(aspect)
  IN << SizeFilter("scale",
          << <<"w", Txt(<<"if(gt(a", ",", a \o ")", ",", w, ",",
                          "trunc(" \o h \o "*a/2)*2)">>)>>,
             <<"h", Txt(<<"if(lt(a", ",", a \o ")", ",", h, ",",
                          "trunc(" \o w \o "/a/2)*2)">>)>> >>),
        SizeFilter("pad",
          << <<"w", Num(width)>>, <<"h", Num(height)>>,
             <<"x", Txt(<<"if(gt(a", ",", a \o ")", ",", "0", ",",
                          "(" \o w \o "-iw)/2)">>)>>,
             <<"y", Txt(<<"if(lt(a", ",", a \o ")", ",", "0", ",",
                          "(" \o h \o "-ih)/2)">>)>>,
             <<"color", Txt(<<color>>)>> >>) >>

\* the scale filter for a fixed width and height
ScaleTo(width, height) ==
  <<SizeFilter("scale", << <<"w", Num(width)>>, <<"h", Num(height)>> >>)>>

\* createSizeFilters once the parameter is stored: the filters for data, or
\* the error it throws
FiltersFor(data) ==
  LET text == data.size.text
      fixedSize == FixedSize(text)
      fixedWidth == FixedWidth(text)
      fixedHeight == FixedHeight(text)
      percentRatio == PercentRatio(text)
      padded == data.pad.in /\ data.pad.on
  IN IF ~data.size.in THEN [threw |-> "", filters |-> <<>>]
     ELSE IF percentRatio # <<>> THEN
       LET ratio == NumberText(Ratio(Number(percentRatio[1]), 100))
       IN [threw |-> "",
           filters |-> <<SizeFilter("scale",
                           << <<"w", Txt(<<"trunc(iw*" \o ratio \o "/2)*2">>)>>,
                              <<"h", Txt(<<"trunc(ih*" \o ratio \o "/2)*2">>)>> >>)>>]
     ELSE IF fixedSize # <<>> THEN
       LET width == RoundToEven(Number(fixedSize[1]))
           height == RoundToEven(Number(fixedSize[2]))
       IN [threw |-> "",
           filters |-> IF padded
                         THEN GetScalePadFilters(width, height, Ratio(width, height),
                                                 data.pad.color)
                         ELSE ScaleTo(width, height)]
     ELSE IF fixedWidth # <<>> \/ fixedHeight # <<>> THEN
       IF data.aspect.in THEN
         LET width == RoundToEven(IF fixedWidth # <<>> THEN Number(fixedWidth[1])
                                  ELSE RoundDiv(Number(fixedHeight[1]) * data.aspect.n,
                                                data.aspect.d))
             height == RoundToEven(IF fixedHeight # <<>> THEN Number(fixedHeight[1])
                                   ELSE RoundDiv(Number(fixedWidth[1]) * data.aspect.d,
                                                 data.aspect.n))
         IN [threw |-> "",
             filters |-> IF padded
                           THEN GetScalePadFilters(width, height,
                                                   Ratio(data.aspect.n, data.aspect.d),
                                                   data.pad.color)
                           ELSE ScaleTo(width, height)]
       ELSE IF fixedWidth # <<>> THEN
         [threw |-> "",
          filters |-> <<SizeFilter("scale",
                          << <<"w", Num(RoundToEven(Number(fixedWidth[1])))>>,
                             <<"h", Txt(<<"trunc(ow/a/2)*2">>)>> >>)>>]
       ELSE
         [threw |-> "",
          filters |-> <<SizeFilter("scale",
                          << <<"w", Txt(<<"trunc(oh*a/2)*2">>)>>,
                             <<"h", Num(RoundToEven(Number(fixedHeight[1])))>> >>)>>]
     ELSE [threw |-> "Invalid size specified", filters |-> <<>>]

\* createSizeFilters: data[key] = value, before anything is parsed
Store(data, key, value) == [data EXCEPT ![key] = value]

\* a mutator that appends the new filters to the list
AppendSizeFilters(old, filters) == old \o filters

\* sizeFilters.clear(); sizeFilters(filters)
ReplaceSizeFilters(old, filters) == filters

\* the end of size, aspect and autopad: createSizeFilters(output, key, value),
\* and when it returns, the size filters replaced
Recompute(st, key, value) ==
  LET data == Store(st.data, key, value)
      r == FiltersFor(data)
  IN [data |-> data,
      filters |-> IF r.threw = "" THEN ReplaceSizeFilters(st.filters, r.filters)
                  ELSE st.filters,
      threw |-> r.threw]

\* size(size)
SizeOf(st, call) == Recompute(st, "size", [in |-> TRUE, text |-> call.text])

\* aspect(aspect): Number(aspect), or the ratio of "W:H"
AspectRatio(st, call) ==
  LET t == call.text
  IN IF Len(t) = 1 /\ t[1] \in Numerals
       THEN Recompute(st, "aspect", [in |-> TRUE] @@ Ratio(Number(t[1]), 1))
     ELSE IF Len(t) = 3 /\ t[1] \in Numerals /\ t[2] = ":" /\ t[3] \in Numerals
       THEN Recompute(st, "aspect", [in |-> TRUE] @@ Ratio(Number(t[1]), Number(t[3])))
     ELSE [data |-> st.data, filters |-> st.filters, threw |-> "Invalid aspect ratio"]

\* autopad(), autopad(color), autopad(false)
Autopad(st, call) ==
  LET pad == call.kind # "false"
      color == IF call.kind = "string" THEN call.text[1] ELSE "black"
  IN Recompute(st, "pad",
               IF pad THEN [in |-> TRUE, on |-> TRUE, color |-> color]
               ELSE [in |-> TRUE, on |-> FALSE, color |-> ""])

\* the calls made on the output
SizeCalls ==
  [op : {"size"}, kind : {"string"}, text : SizeTexts] \cup
  [op : {"aspect"}, kind : {"string"}, text : AspectTexts] \cup
  { [op |-> "autopad", kind |-> "undefined", text |-> <<>>],
    [op |-> "autopad", kind |-> "string", text |-> <<"white">>],
    [op |-> "autopad", kind |-> "false", text |-> <<>>] }

\* one call
SizeCall(st, call) ==
  CASE call.op = "size"    -> SizeOf(st, call)
    [] call.op = "aspect"  -> AspectRatio(st, call)
    [] call.op = "autopad" -> Autopad(st, call)

\* a call made on the output
SizeCalled(call) ==
  LET r == SizeCall([data |-> sizeData, filters |-> sizeFilters], call)
  IN /\ Len(sizeLog) < MaxSizeCalls
     /\ sizeData' = r.data
     /\ sizeFilters' = r.filters
     /\ sizeThrew' = r.threw
     /\ sizeLog' = Append(sizeLog, call)

SizeSize == \E call \in SizeCalls : call.op = "size" /\ SizeCalled(call)

SizeAspect == \E call \in SizeCalls : call.op = "aspect" /\ SizeCalled(call)

SizeAutopad == \E call \in SizeCalls : call.op = "autopad" /\ SizeCalled(call)

\* the variables the size mutators neither read nor write
OffSizeVars == <<RunVars, CapsVars, CacheVars, SessVars, ArgsVars, RingVars, ProgVars, CodecVars, FiltVars, AliasVars, UserKillVars, ProbeVars, MetaVars>>

InitSize ==
  /\ RunIdle
  /\ CapsIdle
  /\ CacheIdle
  /\ SessIdle
  /\ ArgsIdle
  /\ SizeIdle
  /\ RingIdle
  /\ ProgIdle
  /\ CodecIdle
  /\ FiltIdle
  /\ AliasIdle
  /\ UserKillIdle
  /\ ProbeIdle
  /\ MetaIdle

NextSize ==
  \/ SizeSize /\ UNCHANGED OffSizeVars
  \/ SizeAspect /\ UNCHANGED OffSizeVars
  \/ SizeAutopad /\ UNCHANGED OffSizeVars

SpecSize == InitSize /\ [][NextSize]_vars

\* the output before any call
NewSizeState == [data |-> NoSizeData, filters |-> <<>>, threw |-> ""]

RECURSIVE SizeRun(_, _)
\* the output after the calls, made one after the other
SizeRun(st, calls) ==
  IF calls = <<>> THEN st ELSE SizeRun(SizeCall(st, Head(calls)), Tail(calls))

\* the size string is one createSizeFilters can parse
Parsable(text) ==
  FiltersFor([NoSizeData EXCEPT !.size = [in |-> TRUE, text |-> text]]).threw = ""

\* the last three calls are one size() with a parsable size, one aspect() and
\* one autopad(), in some order
LastThreeAreAll ==
  LET n == Len(sizeLog)
  IN /\ n >= 3
     /\ {sizeLog[i].op : i \in (n - 2)..n} = {"size", "aspect", "autopad"}
     /\ \A i \in (n - 2)..n : sizeLog[i].op = "size" => Parsable(sizeLog[i].text)

\* the last three calls, size first, then aspect, then autopad
InSizeAspectPadOrder ==
  LET n == Len(sizeLog)
      the(op) == sizeLog[CHOOSE i \in (n - 2)..n : sizeLog[i].op = op]
  IN <<the("size"), the("aspect"), the("autopad")>>

\* C23: when the size is parsable, size(s), aspect(a) and autopad(p) applied to
\* the same output in any of the six orders leave the size-filter list that
\* the order size, aspect, autopad leaves, and a call repeated with the same
\* value changes nothing.
C23_OrderIndependent ==
  LET n == Len(sizeLog)
  IN /\ LastThreeAreAll =>
          sizeFilters =
            SizeRun(NewSizeState,
                    SubSeq(sizeLog, 1, n - 3) \o InSizeAspectPadOrder).filters
     /\ (n >= 2 /\ sizeLog[n] = sizeLog[n - 1]) =>
          LET before == SizeRun(NewSizeState, SubSeq(sizeLog, 1, n - 1))
          IN sizeData = before.data /\ sizeFilters = before.filters

\* autopad(), aspect("3:2") and size("?x480") were called in that order and
\* left the scale and pad filters
C23_Witness ==
  /\ Len(sizeLog) >= 3
  /\ LastThreeAreAll
  /\ sizeLog[Len(sizeLog) - 2].op = "autopad"
  /\ sizeLog[Len(sizeLog)].op = "size"
  /\ sizeData.aspect.in
  /\ Len(sizeFilters) = 2

\* C24: after any sequence of size(), aspect() and autopad() calls on an output,
\* calls that throw on an unparsable size included, the size-filter list is the
\* list derived from the current sizeData, and empty when no size was requested.
C24_FiltersFollowSizeData ==
  /\ FiltersFor(sizeData).threw = ""
  /\ sizeFilters = FiltersFor(sizeData).filters

\* the number and the targets of a session's inputs and outputs
Shape(s) ==
  [inputs  |-> [k \in DOMAIN s.inputs |-> s.inputs[k].source],
   outputs |-> [k \in DOMAIN s.outputs |-> s.outputs[k].target]]

\* the step is input(source) on session i
InputCalled(i, source) == Called("input", i, Input(heap, sessions[i], source))

\* the step is output(target) on session i
OutputCalled(i, target) == Called("output", i, Output(heap, sessions[i], target))

\* the step is a call on session i that the description has for a
\* configuration error
OffendingCall(i) ==
  \/ InputCalled(i, "unreadable")
  \/ InputCalled(i, "stream") /\ StreamInputs(sessions[i]) # {}
  \/ OutputCalled(i, "none")
  \/ OutputCalled(i, "unwritable")
  \/ OutputCalled(i, "stream") /\ StreamOutputs(sessions[i]) # {}
  \/ Called("size", i, Size(heap, sessions[i], "big"))

\* an offending call on session i throws, spawns no process and leaves the
\* number and the targets of the inputs and outputs as they were
ThrowsAndKeeps(i) ==
  OffendingCall(i) =>
    /\ lastOp'.threw # ""
    /\ procState' = procState /\ ffmpegProc' = ffmpegProc
    /\ Shape(sessions'[i]) = Shape(sessions[i])

\* C25: every configuration error - a non-readable input, a second stream
\* input, a missing or non-writable output target, a second stream output, an
\* unparsable size - is thrown by the offending call, which spawns no process
\* and leaves the number and the targets of the session's inputs and outputs
\* as they were.
C25_ConfigurationErrorsThrown ==
  [][\A i \in DOMAIN sessions : ThrowsAndKeeps(i)]_vars

(***************************************************************************)
(* The line ring (src/unnamed/part_000, linesRing): text is appended in    *)
(* chunks, cut into lines, kept up to a maximum and handed to callbacks.   *)
(* A text is the sequence of its characters.                               *)
(***************************************************************************)
CR == "\r"

LF == "\n"

\* the chunks append() is given
Chunks ==
  { <<"a">>, <<CR>>, <<LF>>, <<"a", LF>>, <<LF, "a">>, <<CR, LF>>, <<"a", CR>>,
    <<LF, LF>> }

\* the maxLines linesRing() is given; 0 is unlimited
RingSizes == {0, 1, 2}

RECURSIVE Split(_)
\* str.split(nlRegexp), nlRegexp = /\r\n|\r|\n/g
Split(str) ==
  IF str = <<>> THEN << <<>> >>
  ELSE IF Head(str) = CR
    THEN << <<>> >> \o Split(IF Len(str) >= 2 /\ str[2] = LF
                               THEN SubSeq(str, 3, Len(str)) ELSE Tail(str))
  ELSE IF Head(str) = LF
    THEN << <<>> >> \o Split(Tail(str))
  ELSE LET rest == Split(Tail(str))
       IN << <<Head(str)>> \o Head(rest) >> \o Tail(rest)

\* a splice that keeps maxLines = max + 1 lines
SpliceToMaxLines(lines, max) ==
  IF max > -1 /\ Len(lines) > max + 1
    THEN SubSeq(lines, Len(lines) - max, Len(lines))
    ELSE lines

\* lines.splice(0, lines.length - max) when the ring is limited and too long
Splice(lines, max) ==
  IF max > -1 /\ Len(lines) > max
    THEN SubSeq(lines, Len(lines) - max + 1, Len(lines))
    ELSE lines

\* lines.shift() when the ring is limited and too long
Shift(lines, max) ==
  IF max > -1 /\ Len(lines) > max THEN Tail(lines) ELSE lines

\* append(str) for a non-empty str: the ring it leaves and the lines it emits
RingAppend(r, str) ==
  LET newLines == Split(str)
      n == Len(newLines)
  IN IF r.closed THEN [ring |-> r, emitted |-> <<>>]
     ELSE IF n = 1
       THEN [ring |-> [r EXCEPT !.current =
                         [set |-> TRUE,
                          text |-> IF r.current.set THEN r.current.text \o newLines[1]
                                   ELSE newLines[1]]],
             emitted |-> <<>>]
     ELSE LET emitted == IF r.current.set
                           THEN <<r.current.text \o newLines[1]>> \o
                                SubSeq(newLines, 2, n - 1)
                           ELSE SubSeq(newLines, 1, n - 1)
          IN [ring |-> [r EXCEPT !.lines = Splice(r.lines \o emitted, r.max),
                                 !.current = [set |-> TRUE, text |-> newLines[n]]],
              emitted |-> emitted]

\* get()
RingGet(r) ==
  IF r.current.set THEN Join(r.lines \o <<r.current.text>>, LF)
  ELSE Join(r.lines, LF)

\* close(): the ring it leaves and the lines it emits
RingClose(r) ==
  IF r.closed THEN [ring |-> r, emitted |-> <<>>]
  ELSE IF r.current.set
    THEN [ring |-> [r EXCEPT !.lines = Shift(Append(r.lines, r.current.text), r.max),
                             !.current = [set |-> FALSE, text |-> <<>>],
                             !.closed = TRUE],
          emitted |-> <<r.current.text>>]
  ELSE [ring |-> [r EXCEPT !.closed = TRUE], emitted |-> <<>>]

\* a callback(cb) that does not replay the lines of the ring
NoReplay(lines) == <<>>

\* callback(cb): lines.forEach(cb), what the new callback is called with
Replay(lines) == lines

\* emit(line) for each line: every registered callback is called with it
Emit(cbs, emitted) == [k \in DOMAIN cbs |-> cbs[k] \o emitted]

\* a call was made
RingCalled(op) ==
  /\ ringOps.count < MaxRingOps
  /\ ringOps' = [count |-> ringOps.count + 1, op |-> op]

\* append(str)
RingAppendCall ==
  \E str \in Chunks :
    LET r == RingAppend(ring, str)
    IN /\ RingCalled("append")
       /\ ring' = r.ring
       /\ ringCbs' = Emit(ringCbs, r.emitted)
       /\ ringFed' = IF ring.closed THEN ringFed ELSE ringFed \o str
       /\ ringAll' = ringAll \o r.emitted

\* callback(cb)
RingCallback ==
  /\ RingCalled("callback")
  /\ ringCbs' = Append(ringCbs, Replay(ring.lines))
  /\ UNCHANGED <<ring, ringFed, ringAll>>

\* close()
RingCloseCall ==
  LET r == RingClose(ring)
  IN /\ RingCalled("close")
     /\ ring' = r.ring
     /\ ringCbs' = Emit(ringCbs, r.emitted)
     /\ ringAll' = ringAll \o r.emitted
     /\ UNCHANGED ringFed

\* the variables the ring neither reads nor writes
OffRingVars == <<RunVars, CapsVars, CacheVars, SessVars, ArgsVars, SizeVars, ProgVars, CodecVars, FiltVars, AliasVars, UserKillVars, ProbeVars, MetaVars>>

InitRing ==
  /\ RunIdle
  /\ CapsIdle
  /\ CacheIdle
  /\ SessIdle
  /\ ArgsIdle
  /\ SizeIdle
  /\ ProgIdle
  /\ CodecIdle
  /\ FiltIdle
  /\ AliasIdle
  /\ UserKillIdle
  /\ ProbeIdle
  /\ MetaIdle
  /\ \E maxLines \in RingSizes : ring = NewRing(maxLines)
  /\ ringCbs = <<>>
  /\ ringFed = <<>>
  /\ ringAll = <<>>
  /\ ringOps = [count |-> 0, op |-> "none"]

NextRing ==
  \/ RingAppendCall /\ UNCHANGED OffRingVars
  \/ RingCallback /\ UNCHANGED OffRingVars
  \/ RingCloseCall /\ UNCHANGED OffRingVars

SpecRing == InitRing /\ [][NextRing]_vars

\* the last n elements of a sequence, all of them when there are fewer
LastOf(seq, n) ==
  IF Len(seq) <= n THEN seq ELSE SubSeq(seq, Len(seq) - n + 1, Len(seq))

\* C26: a ring created with a maximum of N > 0 lines holds, after any appends,
\* the last N completed lines, and get() returns them plus the pending line if
\* there is one; with a maximum of 0 nothing is ever discarded.
C26_LastLinesKept ==
  LET N == ring.max + 1
      kept == IF N > 0 THEN LastOf(ringAll, N) ELSE ringAll
  IN /\ ring.lines = kept
     /\ RingGet(ring) = Join(kept \o (IF ring.current.set THEN <<ring.current.text>>
                                      ELSE <<>>), LF)

\* C26, as the code has it: a ring created with a maximum of N > 0 lines
\* holds, after any appends and close, the last N - 1 completed lines, and
\* get() returns them plus the pending line if there is one, N lines at most;
\* with a maximum of 0 nothing is ever discarded.
C26_AllButOneKept ==
  LET N == ring.max + 1
      kept == IF N > 0 THEN LastOf(ringAll, N - 1) ELSE ringAll
      unfinished == IF ring.current.set THEN <<ring.current.text>> ELSE <<>>
  IN /\ ring.lines = kept
     /\ RingGet(ring) = Join(kept \o unfinished, LF)
     /\ N > 0 => Len(kept \o unfinished) <= N

\* a ring of two lines has completed two lines and holds a unfinished line
C26_Witness ==
  /\ ring.max = 1
  /\ Len(ringAll) >= 2
  /\ ring.current.set
  /\ ring.current.text # <<>>
  /\ ~ring.closed

RECURSIVE Normalised(_)
\* the text with each line terminator, CR LF, CR or LF, replaced by one LF
Normalised(text) ==
  IF text = <<>> THEN <<>>
  ELSE IF Head(text) = CR /\ Len(text) >= 2 /\ text[2] = LF
    THEN <<LF>> \o Normalised(SubSeq(text, 3, Len(text)))
  ELSE IF Head(text) \in {CR, LF}
    THEN <<LF>> \o Normalised(Tail(text))
  ELSE <<Head(text)>> \o Normalised(Tail(text))

\* C27: with an unlimited ring, however the text was cut into chunks, get()
\* after close() is the text with each line terminator replaced by one LF.
C27_ChunkingIrrelevant ==
  (ring.max = -1 /\ ring.closed) => RingGet(ring) = Normalised(ringFed)

\* C28: on an unlimited ring each registered callback receives every line
\* exactly once and in order, earlier lines by replay and later ones live; the
\* pending line is delivered once, at the first close(); a second close()
\* delivers nothing, and append() after close() changes neither get() nor
\* what the callbacks received.
C28_EachLineOnce ==
  [][ring.max = -1 =>
       /\ \A k \in DOMAIN ringCbs' : ringCbs'[k] = ring'.lines
       /\ ring'.lines = ringAll'
       /\ (ringOps'.op = "close" /\ ~ring.closed /\ ring.current.set) =>
            /\ ring'.lines = Append(ring.lines, ring.current.text)
            /\ \A k \in DOMAIN ringCbs : ringCbs'[k] = Append(ringCbs[k], ring.current.text)
       /\ (ringOps'.op \in {"close", "append"} /\ ring.closed) =>
            /\ RingGet(ring') = RingGet(ring)
            /\ ringCbs' = ringCbs]_vars

\* a callback registered between two appends has received, after close(), a
\* replayed line, a live line and the pending line
C28_Witness ==
  /\ ring.max = -1
  /\ ring.closed
  /\ ringOps.op = "close"
  /\ Len(ringCbs) = 1
  /\ Len(ringCbs[1]) = 3

(***************************************************************************)
(* Progress lines (src/unnamed/part_000, parseProgressLine and             *)
(* extractProgress).  A line is the sequence of its pieces: a space, an    *)
(* "=", or a run of other characters.                                      *)
(***************************************************************************)
\* the tokens stderr lines are made of
ProgressTokens ==
  { <<"frame", "=", "10">>, <<"frame", "=", " ", " ", "10">>, <<"fps", "=", "25">>,
    <<"bitrate", "=", "0.5", "kbits/s">>, <<"time", "=", "00:00:01.50">>,
    <<"Press">>, <<"q", "=", "2", "=", "3">>, <<"size", "=">> }

\* the stderr lines: one token, two tokens with one or two spaces between
\* them, a token with spaces around it, the empty line
ProgressLines ==
  {<<>>} \cup ProgressTokens \cup
  {<<" ">> \o t \o <<" ">> : t \in ProgressTokens} \cup
  {t \o gap \o u : t \in ProgressTokens, u \in ProgressTokens,
                   gap \in {<<" ">>, <<" ", " ">>}}

\* the durations a metadata probe may have stored
Durations == {NoDuration, [known |-> TRUE, seconds |-> 10]}

RECURSIVE DropSpaces(_)
\* the line without its leading spaces
DropSpaces(line) ==
  IF line # <<>> /\ Head(line) = " " THEN DropSpaces(Tail(line)) ELSE line

RECURSIVE CollapseEquals(_)
\* line.replace(/=\s+/g, "=")
CollapseEquals(line) ==
  IF line = <<>> THEN <<>>
  ELSE IF Head(line) = "=" THEN <<"=">> \o CollapseEquals(DropSpaces(Tail(line)))
  ELSE <<Head(line)>> \o CollapseEquals(Tail(line))

RECURSIVE Reverse(_)
Reverse(seq) == IF seq = <<>> THEN <<>> ELSE Append(Reverse(Tail(seq)), Head(seq))

\* String.prototype.trim
Trim(line) == Reverse(DropSpaces(Reverse(DropSpaces(line))))

RECURSIVE SplitOn(_, _)
\* String.prototype.split(sep) for a one-character separator
SplitOn(line, sep) ==
  IF line = <<>> THEN << <<>> >>
  ELSE IF Head(line) = sep THEN << <<>> >> \o SplitOn(Tail(line), sep)
  ELSE LET rest == SplitOn(Tail(line), sep)
       IN << <<Head(line)>> \o Head(rest) >> \o Tail(rest)

\* split(sep, 2): the first two parts at most
SplitTwo(line, sep) ==
  LET parts == SplitOn(line, sep)
  IN IF Len(parts) > 2 THEN SubSeq(parts, 1, 2) ELSE parts

\* parseProgressLine: null, or the progress object with the value of each key
\* (the last one given)
ParseProgressLine(line) ==
  LET progressParts == SplitOn(Trim(CollapseEquals(line)), " ")
      split(i) == SplitTwo(progressParts[i], "=")
  IN IF \E i \in DOMAIN progressParts : Len(split(i)) < 2
       THEN [isNull |-> TRUE, keys |-> {}, value |-> <<>>]
       ELSE [isNull |-> FALSE,
             keys   |-> {split(i)[1] : i \in DOMAIN progressParts},
             value  |-> [k \in {split(i)[1] : i \in DOMAIN progressParts} |->
                           split(CHOOSE i \in DOMAIN progressParts :
                                   /\ split(i)[1] = k
                                   /\ \A j \in DOMAIN progressParts :
                                        split(j)[1] = k => j <= i)[2]]]

\* progress[key]: the value, or undefined
NoValue == <<"undefined">>

Field(progress, key) ==
  IF <<key>> \in progress.keys THEN progress.value[<<key>>] ELSE NoValue

\* the numbers that occur in the lines, as parseInt and parseFloat read them
NumberOf(text) ==
  IF text \in {<<"10">>, <<"25">>, <<"0.5">>, <<"2">>} THEN text[1] ELSE "NaN"

\* parseInt(value, 10)
ParseInt(value) == NumberOf(value)

\* progress.bitrate ? parseFloat(progress.bitrate.replace("kbits/s", "")) : 0
CurrentKbps(value) ==
  IF value = NoValue \/ value = <<>> THEN "0"
  ELSE NumberOf(SelectSeq(value, LAMBDA p : p # "kbits/s"))

\* timemarkToSeconds, in hundredths of a second; it reads timemark.indexOf,
\* which throws when the timemark is undefined
TimemarkToSeconds(timemark) ==
  IF timemark = NoValue THEN [threw |-> "TypeError", hundredths |-> 0]
  ELSE IF timemark = <<"00:00:01.50">> THEN [threw |-> "", hundredths |-> 150]
  ELSE [threw |-> "", hundredths |-> 0]

\* extractProgress: the events it emits and what it throws
ExtractProgress(duration, line) ==
  LET progress == ParseProgressLine(line)
      ret == [frames      |-> ParseInt(Field(progress, "frame")),
              currentFps  |-> ParseInt(Field(progress, "fps")),
              currentKbps |-> CurrentKbps(Field(progress, "bitrate")),
              targetSize  |-> ParseInt(IF Field(progress, "size") \notin {NoValue, <<>>}
                                         THEN Field(progress, "size")
                                         ELSE Field(progress, "Lsize")),
              timemark    |-> Field(progress, "time"),
              percent     |-> -1]
      secs == TimemarkToSeconds(ret.timemark)
  IN IF progress.isNull THEN [events |-> <<>>, threw |-> ""]
     ELSE IF ~duration.known THEN [events |-> <<ret>>, threw |-> ""]
     ELSE IF secs.threw # "" THEN [events |-> <<>>, threw |-> secs.threw]
     ELSE [events |-> <<[ret EXCEPT !.percent = secs.hundredths \div duration.seconds]>>,
           threw |-> ""]

\* the stderr ring hands a line to extractProgress
ProgressLine ==
  \E line \in ProgressLines :
    /\ progCalls < MaxProgressLines
    /\ progCalls' = progCalls + 1
    /\ progLine' = line
    /\ progOut' = ExtractProgress(progDuration, line)
    /\ UNCHANGED progDuration

\* the variables extractProgress neither reads nor writes
OffProgVars == <<RunVars, CapsVars, CacheVars, SessVars, ArgsVars, SizeVars, RingVars, CodecVars, FiltVars, AliasVars, UserKillVars, ProbeVars, MetaVars>>

InitProg ==
  /\ RunIdle
  /\ CapsIdle
  /\ CacheIdle
  /\ SessIdle
  /\ ArgsIdle
  /\ SizeIdle
  /\ RingIdle
  /\ CodecIdle
  /\ FiltIdle
  /\ AliasIdle
  /\ UserKillIdle
  /\ ProbeIdle
  /\ MetaIdle
  /\ progDuration \in Durations
  /\ progLine = <<>>
  /\ progOut = NoProgressOut
  /\ progCalls = 0

NextProg == ProgressLine /\ UNCHANGED OffProgVars

SpecProg == InitProg /\ [][NextProg]_vars

\* the tokens of the line once "=" followed by spaces is collapsed to "=" and
\* the line is trimmed
TokensOf(line) == SplitOn(Trim(CollapseEquals(line)), " ")

\* every token is a key and a value with "=" between them
Qualifies(line) ==
  \A i \in DOMAIN TokensOf(line) :
    \E k \in DOMAIN TokensOf(line)[i] : TokensOf(line)[i][k] = "="

\* the value the line gives for the key: what stands between the "=" after
\* the key and the next "=" or the end of the token, in the last token with
\* that key
ValueGiven(line, key) ==
  LET tokens == TokensOf(line)
      has == {i \in DOMAIN tokens : Len(tokens[i]) >= 2 /\ tokens[i][1] = key
                                     /\ tokens[i][2] = "="}
      t == tokens[CHOOSE i \in has : \A j \in has : j <= i]
      after == SubSeq(t, 3, Len(t))
      stop == {k \in DOMAIN after : after[k] = "="}
  IN IF has = {} THEN NoValue
     ELSE IF stop = {} THEN after
     ELSE SubSeq(after, 1, (CHOOSE k \in stop : \A m \in stop : k <= m) - 1)

\* C29: a 'progress' event is emitted for a stderr line iff, once "=" followed
\* by spaces is collapsed to "=" and the line is trimmed, every space-separated
\* token is key=value; one token that is not - an empty one between two spaces,
\* or the empty line - suppresses the event.  A qualifying line gets one event,
\* with frames, currentFps, currentKbps and timemark from the frame, fps,
\* bitrate and time keys.
C29_ProgressIffQualifies ==
  progCalls > 0 =>
    /\ Qualifies(progLine) <=> Len(progOut.events) = 1
    /\ Len(progOut.events) <= 1
    /\ \A i \in DOMAIN progOut.events :
         /\ progOut.events[i].frames = ParseInt(ValueGiven(progLine, "frame"))
         /\ progOut.events[i].currentFps = ParseInt(ValueGiven(progLine, "fps"))
         /\ progOut.events[i].currentKbps = CurrentKbps(ValueGiven(progLine, "bitrate"))
         /\ progOut.events[i].timemark = ValueGiven(progLine, "time")

(***************************************************************************)
(* Codec data (src/unnamed/part_000, extractCodecData, and the stderr      *)
(* callback of run in src/src/processor.ts).  A line is the sequence of    *)
(* its pieces; the words the patterns look for are pieces of their own.    *)
(***************************************************************************)
\* the stderr lines of a run
CodecLines ==
  { <<"Input #", "0", ", ", "avi", ",", " from 'in.avi':">>,
    <<"Input #", "1", ", ", "mov", ",", " from 'in.mov':">>,
    <<"  ", "Duration: ", "00:00:10.00", ",", " start: 0">>,
    <<"    Stream #0:1: ", "Audio: ", "aac", ", ", "stereo">>,
    <<"    Stream #0:0: ", "Video: ", "h264", ", ", "yuv420p">>,
    <<"Output #", "0", ", mp4, to 'out.mp4':">>,
    <<"Stream mapping:">>,
    <<"Press ", "[q]", " to stop">>,
    <<"frame=10">> }

\* the place of the first piece of line that is word, 0 if there is none
IndexOf(line, word) ==
  LET at == {i \in DOMAIN line : line[i] = word}
  IN IF at = {} THEN 0 ELSE CHOOSE i \in at : \A j \in at : i <= j

\* stderrLine.match(/Input #[0-9]+, ([^ ]+),/): the format, or <<>>
InputPattern(line) ==
  LET i == IndexOf(line, "Input #")
  IN IF i > 0 /\ Len(line) >= i + 4 /\ line[i + 2] = ", " /\ line[i + 4] = ","
       THEN <<line[i + 3]>> ELSE <<>>

\* stderrLine.match(pattern) for "Duration: ([^,]+)": the piece after the word
DurPattern(line) ==
  LET i == IndexOf(line, "Duration: ")
  IN IF i > 0 /\ Len(line) > i THEN <<line[i + 1]>> ELSE <<>>

\* match(/Audio: (.*)/) or match(/Video: (.*)/), then split(", "): the parts
\* of the rest of the line, or <<>>
DetailsPattern(line, word) ==
  LET i == IndexOf(line, word)
      rest == SubSeq(line, i + 1, Len(line))
  IN IF i = 0 THEN <<>> ELSE SplitOn(rest, ", ")

\* /Output #\d+/.test(stderrLine)
OutputPattern(line) == IndexOf(line, "Output #") > 0

\* /Stream mapping:|Press (\[q\]|ctrl-c) to stop/.test(stderrLine)
EndPattern(line) ==
  \/ IndexOf(line, "Stream mapping:") > 0
  \/ \E i \in DOMAIN line :
       /\ line[i] = "Press " /\ Len(line) >= i + 2
       /\ line[i + 1] \in {"[q]", "ctrl-c"} /\ line[i + 2] = " to stop"

\* the record an Input banner opens
NewInputRecord(format) ==
  [format |-> format, audio |-> <<>>, video |-> <<>>, duration |-> <<>>,
   audio_details |-> <<>>, video_details |-> <<>>]

\* an Output banner that leaves the input block open
OutputBannerIgnored(c) == c

\* the Output banner: inInput = codecsObject.inInput = false
OutputBanner(c) == [c EXCEPT !.inInput = FALSE]

\* extractCodecData: the codecsObject it leaves, what it emits, what it returns
ExtractCodecData(c, line) ==
  LET inputIndex == Len(c.inputStack)
      format == InputPattern(line)
      dur == DurPattern(line)
      audio == DetailsPattern(line, "Audio: ")
      video == DetailsPattern(line, "Video: ")
      same == [codec |-> c, emitted |-> <<>>, done |-> FALSE]
  IN IF format # <<>>
       THEN [same EXCEPT !.codec = [inputStack |-> Append(c.inputStack,
                                                          NewInputRecord(format)),
                                    inInput |-> TRUE]]
     ELSE IF c.inInput /\ dur # <<>>
       THEN [same EXCEPT !.codec.inputStack[inputIndex].duration = dur]
     ELSE IF c.inInput /\ audio # <<>>
       THEN [same EXCEPT !.codec.inputStack[inputIndex].audio = audio[1],
                         !.codec.inputStack[inputIndex].audio_details = audio]
     ELSE IF c.inInput /\ video # <<>>
       THEN [same EXCEPT !.codec.inputStack[inputIndex].video = video[1],
                         !.codec.inputStack[inputIndex].video_details = video]
     ELSE IF OutputPattern(line)
       THEN [same EXCEPT !.codec = OutputBanner(c)]
     ELSE IF EndPattern(line)
       THEN [same EXCEPT !.emitted = <<c.inputStack>>, !.done = TRUE]
     ELSE same

\* the stderr ring hands a line to the callback run() registered:
\* if (!codecDataSent) codecDataSent = utils.extractCodecData(...)
CodecLine ==
  \E line \in CodecLines :
    LET r == ExtractCodecData(codecObject, line)
    IN /\ Len(codecLog) < MaxCodecLines
       /\ codecLog' = Append(codecLog, line)
       /\ codecObject' = IF codecSent THEN codecObject ELSE r.codec
       /\ codecEvents' = IF codecSent THEN codecEvents ELSE codecEvents \o r.emitted
       /\ codecSent' = IF codecSent THEN TRUE ELSE r.done

\* the variables extractCodecData neither reads nor writes
OffCodecVars ==
  <<RunVars, CapsVars, CacheVars, SessVars, ArgsVars, SizeVars, RingVars, ProgVars, FiltVars, AliasVars, UserKillVars, ProbeVars, MetaVars>>

InitCodec ==
  /\ RunIdle
  /\ CapsIdle
  /\ CacheIdle
  /\ SessIdle
  /\ ArgsIdle
  /\ SizeIdle
  /\ RingIdle
  /\ ProgIdle
  /\ CodecIdle
  /\ FiltIdle
  /\ AliasIdle
  /\ UserKillIdle
  /\ ProbeIdle
  /\ MetaIdle

NextCodec == CodecLine /\ UNCHANGED OffCodecVars

SpecCodec == InitCodec /\ [][NextCodec]_vars

\* kinds of stderr line, by the banner or word they hold
IsInputBanner(line) == \E i \in DOMAIN line : line[i] = "Input #"
IsOutputBanner(line) == \E i \in DOMAIN line : line[i] = "Output #"
IsEndBanner(line) ==
  \E i \in DOMAIN line : line[i] \in {"Stream mapping:", "Press "}
IsDetailLine(line) ==
  \E i \in DOMAIN line : line[i] \in {"Duration: ", "Audio: ", "Video: "}

\* the lines of the log that are Input banners
InputBanners(log) == {i \in DOMAIN log : IsInputBanner(log[i])}

\* the last banner of the log is an Input banner: the log ends inside an
\* input block
InsideInputBlock(log) ==
  \E i \in InputBanners(log) :
    \A j \in DOMAIN log : j > i => ~IsInputBanner(log[j]) /\ ~IsOutputBanner(log[j])

\* the records agree except, possibly, the last one
SameButLast(old, new) ==
  /\ Len(new) = Len(old)
  /\ \A i \in DOMAIN old : i < Len(old) => new[i] = old[i]

\* C30: over the stderr lines of one run 'codecData' is emitted at most once,
\* on the first terminating banner, with one record per Input banner seen
\* before it; a duration, audio or video line changes only the most recently
\* opened record and only inside an input block, so after an Output banner
\* (and before the next Input banner) it changes no record.
C30_CodecDataOnce ==
  [][codecLog' # codecLog =>
       LET line == codecLog'[Len(codecLog')]
           first == IsEndBanner(line) /\ \A i \in DOMAIN codecLog : ~IsEndBanner(codecLog[i])
       IN /\ Len(codecEvents') <= 1
          /\ (codecEvents' # codecEvents) <=> first
          /\ first => /\ Len(codecEvents'[1]) = Cardinality(InputBanners(codecLog))
                      /\ codecEvents'[1] = codecObject.inputStack
          /\ IsDetailLine(line) =>
               /\ SameButLast(codecObject.inputStack, codecObject'.inputStack)
               /\ ~InsideInputBlock(codecLog) =>
                    codecObject'.inputStack = codecObject.inputStack
          /\ ~IsDetailLine(line) /\ ~IsInputBanner(line) =>
               codecObject'.inputStack = codecObject.inputStack]_vars

\* an Input banner, an Output banner, an audio line and a terminating banner
\* were seen in this order: the event carries one record without audio
C30_Witness ==
  /\ Len(codecLog) = 4
  /\ IsInputBanner(codecLog[1])
  /\ IsOutputBanner(codecLog[2])
  /\ IndexOf(codecLog[3], "Audio: ") > 0
  /\ IsEndBanner(codecLog[4])
  /\ Len(codecEvents) = 1
  /\ Len(codecEvents[1]) = 1
  /\ codecEvents[1][1].audio = <<>>

(***************************************************************************)
(* makeFilterStrings (src/unnamed/part_000): the function is given an array *)
(* of filter specifications and called once; its result is handed to it    *)
(* again.                                                                  *)
(***************************************************************************)
\* stream specifiers a filter object names as inputs: none, one bracketed
\* string, an array of a bare and a bracketed one
FilterInputs ==
  { Omitted, Txt(<<"[", "a", "]">>), ArrayOf(<< <<"0:v">>, <<"[", "b", "]">> >>) }

\* stream specifiers a filter object names as outputs: none, one bare string
FilterOutputs == { Omitted, Txt(<<"out">>) }

\* options a filter object carries: none, a number (0 too), a string ("" too),
\* an array (empty too) of a number and a string holding a comma, an object
\* (empty too) of named options
FilterOptions ==
  { Omitted, Num(0), Num(2), Txt(<<>>), Txt(<<"0.5">>),
    ArrayOf(<<>>), ArrayOf(<<Num(1), Txt(<<"a", ",", "b">>)>>),
    ObjectOf(<<>>),
    ObjectOf(<< <<"w", Num(640)>>, <<"x", Txt(<<"a", ",", "b">>)>> >>) }

\* the filter specifications: strings and objects
FilterSpecs ==
  { FilterText(<<"hflip">>), FilterText(<<"[", "a", "]", "vflip">>) } \cup
  { FilterSpec(ins, "scale", opts, outs) :
      ins \in FilterInputs, opts \in FilterOptions, outs \in FilterOutputs }

\* an array of strings as makeFilterStrings sees it
StringFilters(strings) == [i \in DOMAIN strings |-> FilterText(strings[i])]

\* utils.makeFilterStrings(filters), and again on what it returned
MakeFilterStringsCall ==
  /\ ~filtOut.called
  /\ LET strings == MakeFilterStrings(filtSpecs)
     IN filtOut' = [called  |-> TRUE,
                    strings |-> strings,
                    again   |-> MakeFilterStrings(StringFilters(strings)),
                    after   |-> filtSpecs]
  /\ UNCHANGED filtSpecs

OffFiltVars == <<RunVars, CapsVars, CacheVars, SessVars, ArgsVars, SizeVars, RingVars, ProgVars, CodecVars, AliasVars, UserKillVars, ProbeVars, MetaVars>>

InitFilt ==
  /\ RunIdle
  /\ CapsIdle
  /\ CacheIdle
  /\ SessIdle
  /\ ArgsIdle
  /\ SizeIdle
  /\ RingIdle
  /\ ProgIdle
  /\ CodecIdle
  /\ AliasIdle
  /\ UserKillIdle
  /\ ProbeIdle
  /\ MetaIdle
  /\ filtSpecs \in UNION { [1..n -> FilterSpecs] : n \in 0..MaxFilters }
  /\ filtOut = NoFilterResult

NextFilt == MakeFilterStringsCall /\ UNCHANGED OffFiltVars

SpecFilt == InitFilt /\ [][NextFilt]_vars

\* a stream specifier without the brackets it may come with
Bare(label) ==
  LET a == IF label # <<>> /\ Head(label) = "[" THEN Tail(label) ELSE label
  IN IF a # <<>> /\ a[Len(a)] = "]" THEN SubSeq(a, 1, Len(a) - 1) ELSE a

\* the labels of a filter object, each between one pair of brackets
DescribedLabels(streams) ==
  CASE streams.kind = "none"   -> <<>>
    [] streams.kind = "string" -> <<"[">> \o Bare(streams.text) \o <<"]">>
    [] streams.kind = "array"  ->
         Flatten([i \in DOMAIN streams.items |->
                    <<"[">> \o Bare(streams.items[i]) \o <<"]">>])

\* a filter object has options: a number, a string that is not empty, an array
\* or an object with at least one option
OptionsPresent(options) ==
  CASE options.kind = "none"   -> FALSE
    [] options.kind = "number" -> TRUE
    [] options.kind = "string" -> options.text # <<>>
    [] OTHER                   -> options.items # <<>>

\* a value as it is written: a string holding a comma between single quotes
DescribedValue(v) ==
  IF v.kind = "number" THEN <<ToString(v.n)>>
  ELSE IF \E i \in DOMAIN v.text : v.text[i] = ","
    THEN <<"'">> \o v.text \o <<"'">>
    ELSE v.text

\* the options as they are written: the scalar itself, the values of an array
\* joined by ":", the key=value pairs of an object joined by ":"
DescribedOptions(options) ==
  CASE options.kind = "number" -> <<ToString(options.n)>>
    [] options.kind = "string" -> options.text
    [] options.kind = "array"  ->
         Join([i \in DOMAIN options.items |-> DescribedValue(options.items[i])], ":")
    [] options.kind = "object" ->
         Join([i \in DOMAIN options.items |->
                 <<options.items[i][1], "=">> \o DescribedValue(options.items[i][2])],
              ":")

\* the string of a filter object: input labels, filter name, "=" and the
\* options when there are options, output labels
DescribedFilter(spec) ==
  DescribedLabels(spec.inputs) \o <<spec.filter>> \o
  (IF OptionsPresent(spec.options)
     THEN <<"=">> \o DescribedOptions(spec.options) ELSE <<>>) \o
  DescribedLabels(spec.outputs)

\* C31: makeFilterStrings returns as many strings as it was given filters, in
\* their order; a string filter is returned as it is; the array it was given
\* is left as it was; applying it to its own result gives that result again;
\* and a filter object becomes its bracketed input labels, the filter name,
\* "=" and the options exactly when options are present, and its bracketed
\* output labels.
C31_MakeFilterStrings ==
  filtOut.called =>
    /\ Len(filtOut.strings) = Len(filtSpecs)
    /\ filtOut.after = filtSpecs
    /\ filtOut.again = filtOut.strings
    /\ \A i \in DOMAIN filtSpecs :
         filtOut.strings[i] = IF filtSpecs[i].kind = "string"
                                THEN filtSpecs[i].text
                                ELSE DescribedFilter(filtSpecs[i])

(***************************************************************************)
(* The method table of FfmpegCommand (src/src/fluent-ffmpeg.ts): methods   *)
(* are called by name on one session, and each name runs the function its  *)
(* class field is bound to.                                                *)
(***************************************************************************)
\* the class fields: the function each method name is bound to
MethodTable ==
  [withInputFps     |-> "withInputFps",
   inputFps         |-> "withInputFps",
   withAudioFilter  |-> "audioFilters",
   withAudioFilters |-> "audioFilters",
   audioFilter      |-> "audioFilters",
   audioFilters     |-> "audioFilters",
   withVideoFilter  |-> "videoFilters",
   withVideoFilters |-> "audioFilters",
   videoFilter      |-> "audioFilters",
   videoFilters     |-> "audioFilters",
   withOutputFps    |-> "FPS",
   withFps          |-> "withInputFps",
   outputFps        |-> "withInputFps",
   fps              |-> "withInputFps",
   FPS              |-> "withInputFps",
   addInputOption   |-> "inputOptions",
   inputOptions     |-> "inputOptions",
   addOutputOption  |-> "outputOptions",
   addOption        |-> "inputOptions",
   addOptions       |-> "inputOptions",
   outputOptions    |-> "inputOptions"]

\* the methods by what they are given: options, filters, a frame rate
OptionMethods ==
  {"addInputOption", "inputOptions",
   "addOutputOption", "addOption", "addOptions", "outputOptions"}

FilterMethods ==
  {"withAudioFilter", "withAudioFilters", "audioFilter", "audioFilters",
   "withVideoFilter", "withVideoFilters", "videoFilter", "videoFilters"}

FpsMethods ==
  {"withInputFps", "inputFps", "withOutputFps", "withFps", "outputFps", "fps", "FPS"}

\* argument lists: one option, one option with a value, an array of two
\* options, two options with values; one filter string, an array of a filter
\* object and a filter string; a frame rate
OptionArguments ==
  { <<Txt(<<"-an">>)>>,
    <<Txt(<<"-b:v", " ", "1k">>)>>,
    <<ArrayOf(<<Txt(<<"-an">>), Txt(<<"-ss", " ", "5">>)>>)>>,
    <<Txt(<<"-ss", " ", "5">>), Txt(<<"-an">>)>> }

FilterArguments ==
  { <<Txt(<<"hflip">>)>>,
    <<ArrayOf(<<FilterSpec(Omitted, "volume", Num(2), Omitted), Txt(<<"hflip">>)>>)>> }

FpsArguments == { <<Num(25)>> }

ArgumentsOf(method) ==
  IF method \in OptionMethods THEN OptionArguments
  ELSE IF method \in FilterMethods THEN FilterArguments
  ELSE FpsArguments

\* a call that returned with the session as s, a call that threw
AliasDone(s) == [sess |-> s, threw |-> ""]

AliasThrew(s, msg) == [sess |-> s, threw |-> msg]

\* inputOptions and outputOptions: several arguments are taken as they are;
\* one argument, or the items of one array, are each split at the space when
\* that gives two parts
FormatOptions(arguments) ==
  LET several == Len(arguments) > 1
      options == IF several THEN arguments
                 ELSE IF arguments[1].kind = "array" THEN arguments[1].items
                 ELSE <<arguments[1]>>
  IN Flatten([i \in DOMAIN options |->
                LET split == SplitOn(ScalarText(options[i]), " ")
                IN IF ~several /\ Len(split) = 2 THEN split
                   ELSE <<ScalarText(options[i])>>])

\* inputOptions(...)
InputOptions(s, arguments) ==
  IF ~s.input.present THEN AliasThrew(s, "No input specified")
  ELSE AliasDone([s EXCEPT !.input.options = @ \o FormatOptions(arguments)])

\* outputOptions(...)
OutputOptions(s, arguments) ==
  AliasDone([s EXCEPT !.options = @ \o FormatOptions(arguments)])

\* withInputFps(fps)
WithInputFps(s, arguments) ==
  IF ~s.input.present THEN AliasThrew(s, "No input specified")
  ELSE AliasDone([s EXCEPT !.input.options = @ \o <<Str("-r"), ScalarText(arguments[1])>>])

\* FPS(fps)
OutputFps(s, arguments) ==
  AliasDone([s EXCEPT !.video = @ \o <<Str("-r"), ScalarText(arguments[1])>>])

\* videoFilters and audioFilters: several arguments, or the items of one
\* array, or the one filter
FilterList(arguments) ==
  IF Len(arguments) > 1 THEN arguments
  ELSE IF arguments[1].kind = "array" THEN arguments[1].items
  ELSE <<arguments[1]>>

\* videoFilters(...)
VideoFilters(s, arguments) ==
  AliasDone([s EXCEPT !.videoFilters = @ \o MakeFilterStrings(FilterList(arguments))])

\* audioFilters(filters): what `arguments` is depends on the build
AudioFilters(s, arguments, build) ==
  CASE build = "own" ->
         AliasDone([s EXCEPT !.audioFilters =
                      @ \o MakeFilterStrings(FilterList(arguments))])
    [] build = "wrapper" ->
         AliasDone([s EXCEPT !.audioFilters = @ \o AudioFiltersGiven.wrapper])
    [] build = "throws" -> AliasThrew(s, "arguments is not defined")

\* the function a class field holds, applied
Apply(function, s, arguments, build) ==
  CASE function = "inputOptions"  -> InputOptions(s, arguments)
    [] function = "outputOptions" -> OutputOptions(s, arguments)
    [] function = "withInputFps"  -> WithInputFps(s, arguments)
    [] function = "FPS"           -> OutputFps(s, arguments)
    [] function = "videoFilters"  -> VideoFilters(s, arguments)
    [] function = "audioFilters"  -> AudioFilters(s, arguments, build)

\* command.<method>(...arguments)
MethodCall(method, arguments) ==
  /\ aliasCalls < MaxAliasCalls
  /\ LET r == Apply(MethodTable[method], aliasSess, arguments, aliasBuild)
     IN /\ aliasSess' = r.sess
        /\ aliasThrew' = r.threw
  /\ aliasCalls' = aliasCalls + 1
  /\ UNCHANGED aliasBuild

\* command.input("in.avi"): a new current input
AliasAddInput ==
  /\ aliasCalls < MaxAliasCalls
  /\ aliasSess' = [aliasSess EXCEPT !.input = [present |-> TRUE, options |-> <<>>]]
  /\ aliasThrew' = ""
  /\ aliasCalls' = aliasCalls + 1
  /\ UNCHANGED aliasBuild

AliasMethodCall ==
  \E method \in DOMAIN MethodTable :
    \E arguments \in ArgumentsOf(method) : MethodCall(method, arguments)

OffAliasVars == <<RunVars, CapsVars, CacheVars, SessVars, ArgsVars, SizeVars, RingVars, ProgVars, CodecVars, FiltVars, UserKillVars, ProbeVars, MetaVars>>

InitAlias ==
  /\ RunIdle
  /\ CapsIdle
  /\ CacheIdle
  /\ SessIdle
  /\ ArgsIdle
  /\ SizeIdle
  /\ RingIdle
  /\ ProgIdle
  /\ CodecIdle
  /\ FiltIdle
  /\ UserKillIdle
  /\ ProbeIdle
  /\ MetaIdle
  /\ aliasSess = AliasNewSession
  /\ aliasThrew = ""
  /\ aliasCalls = 0
  /\ aliasBuild \in {"own", "wrapper", "throws"}

NextAlias ==
  \/ AliasAddInput /\ UNCHANGED OffAliasVars
  \/ AliasMethodCall /\ UNCHANGED OffAliasVars

SpecAlias == InitAlias /\ [][NextAlias]_vars

\* the operation each alias is documented to stand for
CanonicalOf ==
  [inputFps         |-> "withInputFps",
   withAudioFilters |-> "withAudioFilter",
   audioFilter      |-> "withAudioFilter",
   audioFilters     |-> "withAudioFilter",
   withVideoFilters |-> "withVideoFilter",
   videoFilter      |-> "withVideoFilter",
   videoFilters     |-> "withVideoFilter",
   withFps          |-> "withOutputFps",
   outputFps        |-> "withOutputFps",
   fps              |-> "withOutputFps",
   FPS              |-> "withOutputFps",
   inputOptions     |-> "addInputOption",
   addOption        |-> "addOutputOption",
   addOptions       |-> "addOutputOption",
   outputOptions    |-> "addOutputOption"]

\* C32: a call of an alias, in any session state and with any arguments,
\* leaves the session as a call of its canonical operation with these
\* arguments would, and throws what that call would throw.
C32_AliasesEquivalent ==
  [][\A alias \in DOMAIN CanonicalOf :
       \A arguments \in ArgumentsOf(alias) :
         MethodCall(alias, arguments) =>
           LET r == Apply(MethodTable[CanonicalOf[alias]], aliasSess, arguments,
                          aliasBuild)
           IN /\ aliasSess' = r.sess
              /\ aliasThrew' = r.threw]_vars

(***************************************************************************)
(* kill() (src/src/processor.ts): a run of a session with one output, on   *)
(* which kill() is called at any moment.                                   *)
(***************************************************************************)
\* what kill() is given: nothing, or a signal name
KillSignals == {"undefined", "SIGTERM"}

\* kill() that sends SIGKILL whatever it is given
KillSignalAlwaysDefault(given) == "SIGKILL"

\* signal || "SIGKILL"
KillSignal(given) == IF given = "undefined" THEN "SIGKILL" ELSE given

\* command.kill(signal): with no ffmpegProc a warning is logged; else the
\* signal goes to ffmpegProc.kill, which delivers it when the process has not
\* exited
KillCall ==
  /\ killCalls < MaxKillCalls
  /\ \E given \in KillSignals :
       killLast' = [called    |-> TRUE,
                    given     |-> given,
                    alive     |-> procState = "alive",
                    sent      |-> IF ffmpegProc THEN KillSignal(given) ELSE "none",
                    delivered |-> ffmpegProc /\ procState = "alive",
                    before    |-> Len(events),
                    after     |-> Len(events)]
  /\ killCalls' = killCalls + 1
  /\ UNCHANGED RunVars

OffUserKillVars ==
  <<CapsVars, CacheVars, SessVars, ArgsVars, SizeVars, RingVars, ProgVars, CodecVars, FiltVars, AliasVars, ProbeVars, MetaVars>>

InitKill ==
  /\ RunInit
  /\ Len(outputs) = 1
  /\ CapsIdle
  /\ CacheIdle
  /\ SessIdle
  /\ ArgsIdle
  /\ SizeIdle
  /\ RingIdle
  /\ ProgIdle
  /\ CodecIdle
  /\ FiltIdle
  /\ AliasIdle
  /\ ProbeIdle
  /\ MetaIdle
  /\ killCalls = 0
  /\ killLast = NoKill

NextKill ==
  \/ Next
  \/ KillCall /\ UNCHANGED OffUserKillVars

SpecKill == InitKill /\ [][NextKill]_vars

\* the engine process has been created
Spawned == procState # "none"

\* its exit and the close of every stream that is waited for were observed
Completed == processExited /\ stderrClosed /\ (stdoutClosed \/ ~CaptureStdout)

\* what the last kill() did: a live process got the signal given, or SIGKILL
\* when none was given; without a live process nothing was delivered and no
\* event was emitted
KillAsDescribed ==
  killLast.called =>
    IF killLast.alive
      THEN /\ killLast.delivered
           /\ killLast.sent = (IF killLast.given = "undefined" THEN "SIGKILL"
                               ELSE killLast.given)
      ELSE /\ ~killLast.delivered
           /\ killLast.after = killLast.before

\* C33 as stated: the session has its ffmpegProc exactly from the creation of
\* the engine process until its exit and the required stream closes have all
\* been observed (so not before run(), after completion, or when preparation
\* failed); and kill() sends the given signal, SIGKILL by default, to the live
\* process, and sends and emits nothing when there is none.
C33_HandleWhileRunning ==
  /\ ffmpegProc <=> (Spawned /\ ~Completed)
  /\ KillAsDescribed

\* C33, amended: the session has its ffmpegProc from the creation of the
\* engine process until the completion callback runs, which is when exit and
\* the required stream closes have all been observed or when the process
\* emitted 'error'; kill() as stated.
C33_HandleUntilCompletion ==
  /\ ffmpegProc <=> (Spawned /\ ~Completed /\ procState # "errored")
  /\ KillAsDescribed

\* kill() reached the live process, and the run later completed
C33_Witness ==
  /\ killLast.called
  /\ killLast.delivered
  /\ killLast.given = "SIGTERM"
  /\ Completed
  /\ ~ffmpegProc

(***************************************************************************)
(* The timeout of a run (src/src/processor.ts, run), under Spec.           *)
(***************************************************************************)
\* the timer's callback runs in this step
TimerExpires == processTimer = "armed" /\ processTimer' = "fired"

\* the 'end' and 'error' events after this step
TerminalEventsAfter == SelectSeq(events', LAMBDA e : e.type \in {"end", "error"})

\* the completion of the process and everything after it: a timer that was
\* set does not run any more, and no event reports a timeout that did not
\* expire
TimerCancelled ==
  /\ (timeoutSet /\ Completed') => processTimer' # "armed"
  /\ processTimer = "cleared" =>
       /\ processTimer' = "cleared"
       /\ \A i \in DOMAIN events' : events'[i].err # ErrTimeout

\* C34 as stated: when the timer of a configured timeout expires, the process
\* is sent a kill signal and the terminal event of the run is an 'error'
\* reporting the timeout; when the process completes first, the timer is
\* cancelled, and later there is no timeout error and no kill by the timer.
C34_TimeoutReported ==
  [][/\ TimerExpires =>
          /\ "SIGTERM" \in kills'
          /\ Len(TerminalEventsAfter) = 1
          /\ TerminalEventsAfter[1].type = "error"
          /\ TerminalEventsAfter[1].err = ErrTimeout
     /\ TimerCancelled]_vars

\* C34, amended: when the timer expires the process is sent a kill signal,
\* and the timeout 'error' becomes the terminal event unless the run had
\* already emitted its terminal event, which then stays as it is; the
\* cancellation as stated.
C34_TimeoutReportedUnlessEnded ==
  [][/\ TimerExpires =>
          /\ "SIGTERM" \in kills'
          /\ Len(TerminalEventsAfter) = 1
          /\ IF Len(TerminalEvents) = 0
               THEN /\ TerminalEventsAfter[1].type = "error"
                    /\ TerminalEventsAfter[1].err = ErrTimeout
               ELSE events' = events
     /\ TimerCancelled]_vars

\* the timer expired before the process completed, the timeout was reported,
\* and the process then exited and its streams closed
C34_Witness ==
  /\ processTimer = "fired"
  /\ Len(TerminalEvents) = 1
  /\ TerminalEvents[1].err = ErrTimeout
  /\ Completed

(***************************************************************************)
(* Kills after the run has ended, under Spec.                              *)
(***************************************************************************)
\* the run has emitted 'end': the engine process completed without error
EndEmitted == \E i \in DOMAIN events : events[i].type = "end"

StartPositions == {i \in DOMAIN events : events[i].type = "start"}

\* the positions of the terminal events
TerminalPositions == {i \in DOMAIN events : events[i].type \in {"end", "error"}}

\* C40: 'start' is emitted at most once in a run, only when preparation
\* succeeded and the engine process has been created, and before the run's
\* terminal event; the lines of the engine's stderr, which are what the
\* 'stderr', 'progress' and 'codecData' events are emitted for, arrive only
\* after it; and 'end' is never emitted in a run that emitted no 'start'.
C40_StartFirst ==
  /\ Cardinality(StartPositions) <= 1
  /\ StartPositions # {} => (pc = "running" /\ procState # "none")
  /\ \A i \in StartPositions : \A j \in TerminalPositions : i < j
  /\ stderrRing.text # <<>> => StartPositions # {}
  /\ EndEmitted => StartPositions # {}

\* a run that emitted 'start', received a line on stderr and emitted 'end'
C40_Witness ==
  /\ StartPositions # {}
  /\ stderrRing.text # <<>>
  /\ EndEmitted

(***************************************************************************)
(* The dimensions of size('WxH') (src/unnamed/part_002, createSizeFilters), *)
(* under SpecSize.                                                         *)
(***************************************************************************)
\* the largest even number not exceeding n
TruncToEven(n) == 2 * (n \div 2)

\* C35: while the output's size is a 'WxH' string and no padding is asked for,
\* the size filters are the one scale filter whose w is the largest even
\* number not exceeding W and whose h is the largest even number not
\* exceeding H.
C35_TruncatedToEven ==
  (/\ sizeThrew = ""
   /\ sizeData.size.in
   /\ PercentRatio(sizeData.size.text) = <<>>
   /\ FixedSize(sizeData.size.text) # <<>>
   /\ ~(sizeData.pad.in /\ sizeData.pad.on)) =>
    LET fixedSize == FixedSize(sizeData.size.text)
    IN sizeFilters =
         <<FilterObject(<<>>, "scale",
                        << <<"w", Num(TruncToEven(Number(fixedSize[1])))>>,
                           <<"h", Num(TruncToEven(Number(fixedSize[2])))>> >>,
                        <<>>)>>

(***************************************************************************)
(* The "-strict experimental" patch of _prepare (src/src/processor.ts),    *)
(* under SpecArgs.                                                         *)
(***************************************************************************)
\* argument k is the value of a codec flag and names an experimental encoder
ExperimentalValue(args, k) ==
  /\ k > 1
  /\ args[k - 1] \in {Str("-acodec"), Str("-vcodec")}
  /\ \E c \in DOMAIN AvailableEncoders :
       args[k] = Str(c) /\ AvailableEncoders[c].experimental

\* the vector with the pair behind every such value and nothing else changed
DescribedStrict(args) ==
  Flatten([k \in DOMAIN args |->
             IF ExperimentalValue(args, k)
               THEN <<args[k], Str("-strict"), Str("experimental")>>
               ELSE <<args[k]>>])

\* C36: the final argument vector of _prepare is the assembled vector with
\* "-strict", "experimental" right behind the value of every -acodec or
\* -vcodec that names an experimental encoder; no pair behind other codecs,
\* and no other argument added, removed or moved.
C36_StrictExperimental ==
  argResult.patched => argResult.final = DescribedStrict(argResult.args)

\* a vector with an experimental audio codec, which got the pair, and a video
\* codec that is not experimental
C36_Witness ==
  /\ argResult.patched
  /\ \E k \in DOMAIN argResult.final :
       /\ k + 3 <= Len(argResult.final)
       /\ SubSeq(argResult.final, k, k + 3) =
            <<Str("-acodec"), Str("aac"), Str("-strict"), Str("experimental")>>
  /\ \E k \in DOMAIN argResult.final : argResult.final[k] = Str("libx264")
  /\ Len(argResult.final) = Len(argResult.args) + 2

(***************************************************************************)
(* Metadata for progress (src/src/processor.ts, _prepare and runFfprobe):  *)
(* listeners are added to a session with one input, and run() is called.   *)
(***************************************************************************)
\* the events listeners are added for
ListenerEvents == {"progress", "end", "stderr"}

\* self.listeners("progress").length > 0
HasProgressListener ==
  \E i \in DOMAIN probeListeners : probeListeners[i] = "progress"

\* runFfprobe(command) on the session: an input stream is not probed, a file
\* is
RunFfprobe(count) == IF probeInput = "stream" THEN count ELSE count + 1

\* self.once("newListener", ...): the handler is removed when it is called
RemovedWhenCalled(registered) == FALSE

\* command.on(event, listener): 'newListener' is emitted first, which calls
\* the handler _prepare registered, if it is there
AddListener ==
  /\ Len(probeListeners) < MaxListeners
  /\ \E event \in ListenerEvents :
       /\ probeListeners' = Append(probeListeners, event)
       /\ IF probeOnce
            THEN /\ probeOnce' = RemovedWhenCalled(probeOnce)
                 /\ probeCount' = IF event = "progress" THEN RunFfprobe(probeCount)
                                  ELSE probeCount
            ELSE UNCHANGED <<probeOnce, probeCount>>
  /\ UNCHANGED <<probeInput, probeRun>>

\* run(), as far as the end of _prepare's synchronous part: with a 'progress'
\* listener runFfprobe is given `this`, which in the arrow function is the
\* module's and not the session (undefined, or the exports object), so
\* reading _inputs[0] of it throws a TypeError out of run(); without one the
\* 'newListener' handler is registered
RunPrepare ==
  /\ probeRun = "idle"
  /\ IF HasProgressListener
       THEN /\ probeRun' = "threw"
            /\ UNCHANGED probeOnce
       ELSE /\ probeRun' = "started"
            /\ probeOnce' = TRUE
  /\ UNCHANGED <<probeInput, probeListeners, probeCount>>

OffProbeVars ==
  <<RunVars, CapsVars, CacheVars, SessVars, ArgsVars, SizeVars, RingVars, ProgVars, CodecVars, FiltVars, AliasVars, UserKillVars, MetaVars>>

InitProbe ==
  /\ RunIdle
  /\ CapsIdle
  /\ CacheIdle
  /\ SessIdle
  /\ ArgsIdle
  /\ SizeIdle
  /\ RingIdle
  /\ ProgIdle
  /\ CodecIdle
  /\ FiltIdle
  /\ AliasIdle
  /\ UserKillIdle
  /\ MetaIdle
  /\ probeInput \in {"file", "stream"}
  /\ probeListeners = <<>>
  /\ probeOnce = FALSE
  /\ probeCount = 0
  /\ probeRun = "idle"

NextProbe ==
  \/ AddListener /\ UNCHANGED OffProbeVars
  \/ RunPrepare /\ UNCHANGED OffProbeVars

SpecProbe == InitProbe /\ [][NextProbe]_vars

\* C37: once run() was called and a 'progress' listener is registered, be it
\* from before run() or added after it and after listeners for other events,
\* a probe of a file input 0 has been started; run() did not throw on a
\* session whose input 0 is a file; and a stream input is never probed.
C37_ProbedForProgress ==
  /\ (probeInput = "file" /\ probeRun # "idle" /\ HasProgressListener) => probeCount >= 1
  /\ probeInput = "file" => probeRun # "threw"
  /\ probeInput = "stream" => probeCount = 0

\* ======================================================================
\* ffprobe(): one call, its child process and the events it answers.
\* ======================================================================

\* what a call can be made on: no current input, an index with no input, a
\* file input, a stream input
MetaInputs == {"none", "badindex", "file", "stream"}

\* what _getFfprobePath yields: an error, an empty path, a path
MetaPaths == {"error", "", "ffprobe"}

\* the error codes of an 'error' on the child's stdin
StdinErrorCodes == {"ECONNRESET", "EPIPE", "EOF", "EIO"}

\* the exits of the child: [code, signal]
MetaExits ==
  {[code |-> 0, signal |-> ""], [code |-> 1, signal |-> ""],
   [code |-> 0, signal |-> "SIGKILL"]}

\* calling the callback directly
Callback(calls, result) == Append(calls, result)

\* handleCallback(err, data): the callback, once
HandleCallback(result) ==
  IF ~metaEnded
    THEN /\ metaEnded' = TRUE
         /\ metaCallbacks' = Callback(metaCallbacks, result)
    ELSE UNCHANGED <<metaEnded, metaCallbacks>>

\* ffprobe.on("error", callback): the listener is the callback itself
OnProcessError(result) ==
  /\ metaCallbacks' = Callback(metaCallbacks, result)
  /\ UNCHANGED metaEnded

\* handleExit(err), called with the flags as they are after the event
MetaHandleExit(err, exited, outClosed, errClosed) ==
  /\ metaExitError' = (metaExitError \/ err)
  /\ IF exited /\ outClosed /\ errClosed
       THEN IF metaExitError'
              THEN HandleCallback("error")
              ELSE HandleCallback("data")
       ELSE UNCHANGED <<metaEnded, metaCallbacks>>

\* ffprobe(...): the input is resolved; without one the callback gets the
\* error at once, else _getFfprobePath is asked
FfprobeCall ==
  /\ metaPhase = "idle"
  /\ IF metaInput \in {"none", "badindex"}
       THEN /\ HandleCallback("error")
            /\ metaPhase' = "done"
       ELSE /\ metaPhase' = "path"
            /\ UNCHANGED <<metaEnded, metaCallbacks>>
  /\ UNCHANGED <<metaInput, metaExited, metaExitError, metaStdoutClosed,
                 metaStderrClosed, metaEvents>>

\* the callback of _getFfprobePath: an error or no path end the call, a path
\* spawns the child and registers the listeners
FfprobePathCB ==
  /\ metaPhase = "path"
  /\ \E path \in MetaPaths :
       IF path \in {"error", ""}
         THEN /\ HandleCallback("error")
              /\ metaPhase' = "done"
         ELSE /\ metaPhase' = "spawned"
              /\ UNCHANGED <<metaEnded, metaCallbacks>>
  /\ UNCHANGED <<metaInput, metaExited, metaExitError, metaStdoutClosed,
                 metaStderrClosed, metaEvents>>

\* 'error' on the child's stdin, listened to for a stream input only
MetaStdinError ==
  /\ metaPhase = "spawned"
  /\ metaInput = "stream"
  /\ "stdinError" \notin metaEvents
  /\ metaEvents' = metaEvents \cup {"stdinError"}
  /\ \E code \in StdinErrorCodes :
       IF code \in {"ECONNRESET", "EPIPE", "EOF"}
         THEN UNCHANGED <<metaEnded, metaCallbacks>>
         ELSE HandleCallback("error")
  /\ UNCHANGED <<metaInput, metaPhase, metaExited, metaExitError,
                 metaStdoutClosed, metaStderrClosed>>

\* 'error' of the child (it could not be spawned, or could not be killed);
\* 'exit' may or may not follow it
MetaProcessError ==
  /\ metaPhase = "spawned"
  /\ "error" \notin metaEvents
  /\ metaEvents' = metaEvents \cup {"error"}
  /\ OnProcessError("error")
  /\ UNCHANGED <<metaInput, metaPhase, metaExited, metaExitError,
                 metaStdoutClosed, metaStderrClosed>>

\* 'exit' of the child
MetaProcessExit ==
  /\ metaPhase = "spawned"
  /\ "exit" \notin metaEvents
  /\ metaEvents' = metaEvents \cup {"exit"}
  /\ metaExited' = TRUE
  /\ \E exit \in MetaExits :
       MetaHandleExit(exit.code # 0 \/ exit.signal # "", TRUE,
                      metaStdoutClosed, metaStderrClosed)
  /\ UNCHANGED <<metaInput, metaPhase, metaStdoutClosed, metaStderrClosed>>

\* 'close' of the child's stdout
MetaStdoutClose ==
  /\ metaPhase = "spawned"
  /\ ~metaStdoutClosed
  /\ metaStdoutClosed' = TRUE
  /\ MetaHandleExit(FALSE, metaExited, TRUE, metaStderrClosed)
  /\ UNCHANGED <<metaInput, metaPhase, metaExited, metaStderrClosed, metaEvents>>

\* 'close' of the child's stderr
MetaStderrClose ==
  /\ metaPhase = "spawned"
  /\ ~metaStderrClosed
  /\ metaStderrClosed' = TRUE
  /\ MetaHandleExit(FALSE, metaExited, metaStdoutClosed, TRUE)
  /\ UNCHANGED <<metaInput, metaPhase, metaExited, metaStdoutClosed, metaEvents>>

OffMetaVars ==
  <<RunVars, CapsVars, CacheVars, SessVars, ArgsVars, SizeVars, RingVars, ProgVars, CodecVars, FiltVars, AliasVars, UserKillVars, ProbeVars>>

InitMeta ==
  /\ RunIdle
  /\ CapsIdle
  /\ CacheIdle
  /\ SessIdle
  /\ ArgsIdle
  /\ SizeIdle
  /\ RingIdle
  /\ ProgIdle
  /\ CodecIdle
  /\ FiltIdle
  /\ AliasIdle
  /\ UserKillIdle
  /\ ProbeIdle
  /\ metaInput \in MetaInputs
  /\ metaPhase = "idle"
  /\ metaEnded = FALSE
  /\ metaCallbacks = <<>>
  /\ metaExited = FALSE
  /\ metaExitError = FALSE
  /\ metaStdoutClosed = FALSE
  /\ metaStderrClosed = FALSE
  /\ metaEvents = {}

NextMeta ==
  \/ FfprobeCall /\ UNCHANGED OffMetaVars
  \/ FfprobePathCB /\ UNCHANGED OffMetaVars
  \/ MetaStdinError /\ UNCHANGED OffMetaVars
  \/ MetaProcessError /\ UNCHANGED OffMetaVars
  \/ MetaProcessExit /\ UNCHANGED OffMetaVars
  \/ MetaStdoutClose /\ UNCHANGED OffMetaVars
  \/ MetaStderrClose /\ UNCHANGED OffMetaVars

SpecMeta == InitMeta /\ [][NextMeta]_vars

\* a result with data was handed to the callback
ReportedSuccess == \E i \in 1..Len(metaCallbacks) : metaCallbacks[i] = "data"

\* C38: over every interleaving of the child's 'error', a stdin error, the
\* exit and the two closes, the callback of one ffprobe() call is called at
\* most once, and it is given data only when the exit and both closes have
\* been observed.
C38_CallbackOnce ==
  /\ Len(metaCallbacks) <= 1
  /\ ReportedSuccess => (metaExited /\ metaStdoutClosed /\ metaStderrClosed)


====
